---------------------------- MODULE Spec2Model ----------------------------
(***************************************************************************)
(* A model of the evoblast backend: the chat turn (process_message and the *)
(* manual RAG pipeline of yandex_service), the conversation store of       *)
(* mongodb.py, and the document / vector-store lifecycle of file_service.  *)
(*                                                                         *)
(* Text is modelled as Python models it: a str is a sequence of Unicode    *)
(* code points, so "hi" is <<104, 105>>.  lower(), upper(), strip(),       *)
(* split(), slicing and the substring test are computed on those           *)
(* sequences.                                                              *)
(***************************************************************************)
EXTENDS Integers, Sequences, FiniteSets, TLC

(***************************************************************************)
(* Bounds of the model.                                                    *)
(***************************************************************************)
MaxTurns == 2          \* turns (process_message calls) started in a run
MaxSearchHits == 11    \* the search backend returns up to this many chunks
PriorTurns == 500      \* turns a long thread has had when a run of SpecHist starts
MaxOps == 3            \* file operations started in a run

(***************************************************************************)
(* Python str helpers                                                      *)
(***************************************************************************)
\* str.isspace() code points that str.strip() and str.split() treat as blank
Whitespace == {9, 10, 11, 12, 13, 28, 29, 30, 31, 32, 133, 160}

\* str.lower() on one code point: Latin A-Z, Cyrillic capital letters
LowerCp(c) ==
    IF c >= 65 /\ c <= 90 THEN c + 32
    ELSE IF c >= 1040 /\ c <= 1071 THEN c + 32
    ELSE IF c >= 1024 /\ c <= 1039 THEN c + 80
    ELSE c

\* str.upper() on one code point
UpperCp(c) ==
    IF c >= 97 /\ c <= 122 THEN c - 32
    ELSE IF c >= 1072 /\ c <= 1103 THEN c - 32
    ELSE IF c >= 1104 /\ c <= 1119 THEN c - 80
    ELSE c

Lower(s) == [i \in 1..Len(s) |-> LowerCp(s[i])]
Upper(s) == [i \in 1..Len(s) |-> UpperCp(s[i])]

\* s[:n]
Take(s, n) == SubSeq(s, 1, IF Len(s) < n THEN Len(s) ELSE n)

\* str.strip(chars): drop the leading and the trailing run of chars
StripChars(s, chars) ==
    LET n == Len(s)
        lead == Cardinality({i \in 1..n : \A j \in 1..i : s[j] \in chars})
        trail == Cardinality({i \in 1..n : \A j \in i..n : s[j] \in chars})
    IN  IF lead = n THEN <<>> ELSE SubSeq(s, lead + 1, n - trail)

\* str.strip(): drop leading and trailing whitespace
Strip(s) == StripChars(s, Whitespace)

\* len(s.split()): the number of maximal runs of non-whitespace
WordCount(s) ==
    Cardinality({i \in 1..Len(s) :
        /\ s[i] \notin Whitespace
        /\ (i = 1 \/ s[i - 1] \in Whitespace)})

\* kw in s
Contains(s, kw) ==
    \/ kw = <<>>
    \/ \E i \in 1..(Len(s) - Len(kw) + 1) :
          s[i] = kw[1] /\ SubSeq(s, i, i + Len(kw) - 1) = kw

\* sep.join(parts)
RECURSIVE Join(_, _)
Join(sep, parts) ==
    IF parts = <<>> THEN <<>>
    ELSE IF Len(parts) = 1 THEN parts[1]
    ELSE parts[1] \o sep \o Join(sep, Tail(parts))

(***************************************************************************)
(* yandex_service: vocabulary and canned answers                           *)
(***************************************************************************)
GREETINGS ==
    { <<1087, 1088, 1080, 1074, 1077, 1090>>,  \* привет
      <<1079, 1076, 1088, 1072, 1074, 1089, 1090, 1074, 1091, 1081>>,  \* здравствуй
      <<1079, 1076, 1088, 1072, 1074, 1089, 1090, 1074, 1091, 1081, 1090, 1077>>,  \* здравствуйте
      <<1076, 1086, 1073, 1088, 1099, 1081, 32, 1076, 1077, 1085, 1100>>,  \* добрый день
      <<1076, 1086, 1073, 1088, 1086, 1077, 32, 1091, 1090, 1088, 1086>>,  \* доброе утро
      <<1076, 1086, 1073, 1088, 1099, 1081, 32, 1074, 1077, 1095, 1077, 1088>>,  \* добрый вечер
      <<1093, 1072, 1081>>,  \* хай
      <<104, 101, 108, 108, 111>>,  \* hello
      <<104, 105>> }  \* hi

FAREWELLS ==
    { <<1087, 1086, 1082, 1072>>,  \* пока
      <<1076, 1086, 32, 1089, 1074, 1080, 1076, 1072, 1085, 1080, 1103>>,  \* до свидания
      <<1087, 1088, 1086, 1097, 1072, 1081>>,  \* прощай
      <<98, 121, 101>>,  \* bye
      <<103, 111, 111, 100, 98, 121, 101>> }  \* goodbye

THANKS ==
    { <<1089, 1087, 1072, 1089, 1080, 1073, 1086>>,  \* спасибо
      <<1073, 1083, 1072, 1075, 1086, 1076, 1072, 1088, 1102>>,  \* благодарю
      <<116, 104, 97, 110, 107, 115>>,  \* thanks
      <<116, 104, 97, 110, 107, 32, 121, 111, 117>> }  \* thank you

task_keywords ==
    { <<1087, 1088, 1086, 1074, 1077, 1088, 1100>>,  \* проверь
      <<1087, 1088, 1086, 1074, 1077, 1088, 1080, 1090, 1100>>,  \* проверить
      <<1080, 1089, 1087, 1088, 1072, 1074, 1100>>,  \* исправь
      <<1080, 1089, 1087, 1088, 1072, 1074, 1080, 1090, 1100>>,  \* исправить
      <<1087, 1077, 1088, 1077, 1087, 1080, 1096, 1080>>,  \* перепиши
      <<1087, 1077, 1088, 1077, 1087, 1080, 1089, 1072, 1090, 1100>>,  \* переписать
      <<1085, 1072, 1087, 1080, 1096, 1080>>,  \* напиши
      <<1085, 1072, 1087, 1080, 1089, 1072, 1090, 1100>>,  \* написать
      <<1086, 1090, 1088, 1077, 1076, 1072, 1082, 1090, 1080, 1088, 1091, 1081>>,  \* отредактируй
      <<1086, 1090, 1088, 1077, 1076, 1072, 1082, 1090, 1080, 1088, 1086, 1074, 1072, 1090, 1100>>,  \* отредактировать
      <<1087, 1077, 1088, 1077, 1088, 1072, 1073, 1086, 1090, 1072, 1081>>,  \* переработай
      <<1087, 1077, 1088, 1077, 1088, 1072, 1073, 1086, 1090, 1072, 1090, 1100>>,  \* переработать
      <<1089, 1086, 1082, 1088, 1072, 1090, 1080>>,  \* сократи
      <<1089, 1086, 1082, 1088, 1072, 1090, 1080, 1090, 1100>>,  \* сократить
      <<1076, 1086, 1087, 1086, 1083, 1085, 1080>>,  \* дополни
      <<1076, 1086, 1087, 1086, 1083, 1085, 1080, 1090, 1100>>,  \* дополнить
      <<1087, 1077, 1088, 1077, 1074, 1077, 1076, 1080>>,  \* переведи
      <<1087, 1077, 1088, 1077, 1074, 1077, 1089, 1090, 1080>>,  \* перевести
      <<1091, 1083, 1091, 1095, 1096, 1080>>,  \* улучши
      <<1091, 1083, 1091, 1095, 1096, 1080, 1090, 1100>> }  \* улучшить

\* "Здравствуйте! Я ассистент по базе знаний. Задайте мне вопрос по загруженным документам, и я дам вам развёрнутый структурированный ответ."
GreetingAnswer ==
    <<1047, 1076, 1088, 1072, 1074, 1089, 1090, 1074, 1091, 1081, 1090, 1077, 33, 32, 1071, 32, 1072, 1089, 1089, 1080, 1089, 1090, 1077, 1085, 1090, 32, 1087, 1086, 32, 1073, 1072, 1079, 1077, 32, 1079, 1085, 1072, 1085, 1080, 1081, 46, 32, 1047, 1072, 1076, 1072, 1081, 1090, 1077, 32, 1084, 1085, 1077, 32, 1074, 1086, 1087, 1088, 1086, 1089, 32, 1087, 1086, 32, 1079, 1072, 1075, 1088, 1091, 1078, 1077, 1085, 1085, 1099, 1084, 32, 1076, 1086, 1082, 1091, 1084, 1077, 1085, 1090, 1072, 1084, 44, 32, 1080, 32, 1103, 32, 1076, 1072, 1084, 32, 1074, 1072, 1084, 32, 1088, 1072, 1079, 1074, 1105, 1088, 1085, 1091, 1090, 1099, 1081, 32, 1089, 1090, 1088, 1091, 1082, 1090, 1091, 1088, 1080, 1088, 1086, 1074, 1072, 1085, 1085, 1099, 1081, 32, 1086, 1090, 1074, 1077, 1090, 46>>
\* "До свидания! Буду рад помочь снова."
FarewellAnswer ==
    <<1044, 1086, 32, 1089, 1074, 1080, 1076, 1072, 1085, 1080, 1103, 33, 32, 1041, 1091, 1076, 1091, 32, 1088, 1072, 1076, 32, 1087, 1086, 1084, 1086, 1095, 1100, 32, 1089, 1085, 1086, 1074, 1072, 46>>
\* "Пожалуйста! Если есть ещё вопросы по базе знаний — спрашивайте."
ThanksAnswer ==
    <<1055, 1086, 1078, 1072, 1083, 1091, 1081, 1089, 1090, 1072, 33, 32, 1045, 1089, 1083, 1080, 32, 1077, 1089, 1090, 1100, 32, 1077, 1097, 1105, 32, 1074, 1086, 1087, 1088, 1086, 1089, 1099, 32, 1087, 1086, 32, 1073, 1072, 1079, 1077, 32, 1079, 1085, 1072, 1085, 1080, 1081, 32, 8212, 32, 1089, 1087, 1088, 1072, 1096, 1080, 1074, 1072, 1081, 1090, 1077, 46>>

\* Python's None where a str is expected: no text has a negative code point
None == <<-1>>

_MAX_GREETING_WORDS == 5
TaskPrefixLen == 100
RelevancePreviewLen == 500
SearchMaxResults == 10

\* is_greeting matching a greeting anywhere in the text
is_greeting_containing(text) ==
    LET text_lower == Strip(Lower(text))
    IN  IF WordCount(text_lower) > _MAX_GREETING_WORDS THEN FALSE
        ELSE \E g \in GREETINGS : Contains(text_lower, g)

is_greeting(text) ==
    LET text_lower == Strip(Lower(text))
    IN  IF WordCount(text_lower) > _MAX_GREETING_WORDS THEN FALSE
        ELSE text_lower \in GREETINGS

is_farewell(text) ==
    LET text_lower == Strip(Lower(text))
    IN  IF WordCount(text_lower) > _MAX_GREETING_WORDS THEN FALSE
        ELSE text_lower \in FAREWELLS

is_thanks(text) ==
    LET text_lower == Strip(Lower(text))
    IN  IF WordCount(text_lower) > _MAX_GREETING_WORDS THEN FALSE
        ELSE text_lower \in THANKS

get_greeting_response(text) ==
    IF is_greeting(text) THEN GreetingAnswer
    ELSE IF is_farewell(text) THEN FarewellAnswer
    ELSE IF is_thanks(text) THEN ThanksAnswer
    ELSE None

\* any(kw in start for kw in task_keywords)
AnyKeywordIn(start) == \E kw \in task_keywords : Contains(start, kw)

_is_direct_task(text) ==
    LET text_lower == Strip(Lower(text))
        start == Take(text_lower, TaskPrefixLen)
    IN  AnyKeywordIn(start)

(***************************************************************************)
(* State                                                                   *)
(***************************************************************************)
VARIABLES
    settings,        \* app.config settings: which values are configured
    _openai_client,  \* yandex_service._openai_client: TRUE once constructed
    chat_threads,    \* collection chat_threads: a set of documents
    chat_history,    \* collection chat_history: documents in insertion order
    uuid_counter,    \* uuid.uuid4() values handed out so far
    turn,            \* per request task: the locals of process_message
    turns_started    \* number of process_message calls so far

chatVars == <<settings, _openai_client, chat_threads, chat_history,
              uuid_counter, turn, turns_started>>

VARIABLES
    files,               \* collection files: documents in insertion order
    db_vector_store_id,  \* collection settings: the value of key "vector_store_id"
    _vector_store_id,    \* yandex_service: the cached vector store id
    _indexing_status,    \* file_service._indexing_status
    vector_stores,       \* Knowledge Store: the vector stores that exist
    storage_files,       \* Knowledge Store: the ids of the uploaded files that exist
    yandex_counter,      \* ids the Knowledge Store has handed out so far
    fop,                 \* per request task: the locals of the file operation
    ops_started          \* number of file operations started so far

idxVars == <<files, db_vector_store_id, _vector_store_id, _indexing_status,
             vector_stores, storage_files, yandex_counter, fop, ops_started>>

vars == <<chatVars, idxVars>>

(***************************************************************************)
(* The backends' answers, as the pipeline sees them                        *)
(***************************************************************************)
\* the i-th text the vector-store search returns: "чанк " followed by a letter
Chunk(i) == <<1095, 1072, 1085, 1082, 32, 64 + i>>
Hits(n) == [i \in 1..n |-> Chunk(i)]

\* client.vector_stores.search: raises, or returns n texts
SearchOutcomes ==
    {[kind |-> "raise", n |-> 0]} \cup
    {[kind |-> "ok", n |-> k] : k \in {0, 1, MaxSearchHits}}

\* the relevance completion: httpx raises, a status other than 200, a body
\* without result.alternatives[0].message.text, or a body with that text
RelevanceTexts ==
    { <<1044, 1040>>,          \* "ДА"
      <<32, 1076, 1072, 46>>,        \* " да."
      <<1053, 1045, 1058>>,    \* "НЕТ"
      <<1053, 1077, 32, 1079, 1085, 1072, 1102>> }  \* "Не знаю"
RelevanceOutcomes ==
    {[kind |-> k, text |-> <<>>] : k \in {"raise", "status", "bad_json"}} \cup
    {[kind |-> "ok", text |-> t] : t \in RelevanceTexts}

\* the answer completion: httpx raises, a status other than 200, or a text
AnswerText == <<1054, 1090, 1074, 1077, 1090, 32, 49>>  \* "Ответ 1"
GenerateOutcomes ==
    {[kind |-> k, text |-> <<>>] : k \in {"raise", "status"}} \cup
    {[kind |-> "ok", text |-> AnswerText]}

(***************************************************************************)
(* yandex_service: the RAG pipeline.  Each function is given the answer of *)
(* the backend it calls and returns a record with what it returned,        *)
(* whether it raised, and the backend calls it made.  _rag_pipeline_sync   *)
(* is the set of the results it can have, one per answer of the backends   *)
(* it reaches.                                                             *)
(***************************************************************************)
\* "БАЗА ЗНАНИЙ:\n\n", the last line of the SYSTEM_PROMPT literal
SYSTEM_PROMPT == <<1041, 1040, 1047, 1040, 32, 1047, 1053, 1040, 1053, 1048, 1049, 58, 10, 10>>
EmptyMarker == <<40, 1087, 1091, 1089, 1090, 1086, 41>>  \* "(пусто)"
ChunkSeparator == <<10, 10, 45, 45, 45, 10, 10>>  \* "\n\n---\n\n"
Yes == <<1044, 1040>>  \* "ДА"

\* a backend call: what was sent and what the backend answered
Call(op, text, messages, out) ==
    [op |-> op, text |-> text, messages |-> messages, out |-> out]

get_openai_client(client) ==
    IF ~client
    THEN IF ~settings.YANDEX_FOLDER_ID THEN [raised |-> TRUE, client |-> FALSE]
         ELSE IF ~settings.YANDEX_API_KEY THEN [raised |-> TRUE, client |-> FALSE]
         ELSE [raised |-> FALSE, client |-> TRUE]
    ELSE [raised |-> FALSE, client |-> TRUE]

_search_index_sync(query, max_results, client, out) ==
    LET c == get_openai_client(client)
    IN  IF c.raised
        THEN [raised |-> TRUE, chunks |-> <<>>, client |-> c.client, calls |-> <<>>]
        ELSE IF ~settings.SEARCH_INDEX_ID
        THEN [raised |-> FALSE, chunks |-> <<>>, client |-> c.client, calls |-> <<>>]
        ELSE IF out.kind = "raise"
        THEN [raised |-> FALSE, chunks |-> <<>>, client |-> c.client,
              calls |-> <<Call("search", query, <<>>, out)>>]
        ELSE [raised |-> FALSE, chunks |-> Take(Hits(out.n), max_results),
              client |-> c.client, calls |-> <<Call("search", query, <<>>, out)>>]

\* _check_relevance_sync failing closed: a failed check counts as "not relevant"
check_relevance_fail_closed(question, chunks, out) ==
    IF chunks = <<>> THEN [result |-> FALSE, calls |-> <<>>]
    ELSE LET call == Call("relevance", Take(chunks[1], RelevancePreviewLen),
                          <<[role |-> "user", text |-> question]>>, out)
         IN  IF out.kind = "ok"
             THEN LET answer == Upper(Strip(out.text))
                  IN  [result |-> Contains(answer, Yes), calls |-> <<call>>]
             ELSE [result |-> FALSE, calls |-> <<call>>]

_check_relevance_sync(question, chunks, out) ==
    IF chunks = <<>> THEN [result |-> FALSE, calls |-> <<>>]
    ELSE LET call == Call("relevance", Take(chunks[1], RelevancePreviewLen),
                          <<[role |-> "user", text |-> question]>>, out)
         IN  IF out.kind = "ok"
             THEN LET answer == Upper(Strip(out.text))
                  IN  [result |-> Contains(answer, Yes), calls |-> <<call>>]
             ELSE [result |-> TRUE, calls |-> <<call>>]

\* _generate_answer_sync answering with a text of its own when the backend
\* did not answer 200
_generate_answer_sync_with_fallback(question, context, history, out) ==
    LET call == Call("generate", context, <<>>, out)
    IN  IF out.kind = "raise"
        THEN [raised |-> TRUE, answer |-> None, calls |-> <<call>>]
        ELSE [raised |-> FALSE, answer |-> out.text, calls |-> <<call>>]

\* _generate_answer_sync putting the question before the history and leaving
\* the system text without a marker when there is no context
_generate_answer_sync_question_first(question, context, history, out) ==
    LET messages == <<[role |-> "system", text |-> SYSTEM_PROMPT \o context],
                      [role |-> "user", text |-> question]>>
                    \o [i \in 1..Len(history) |->
                          [role |-> history[i].role, text |-> history[i].content]]
        call == Call("generate", context, messages, out)
    IN  IF out.kind = "ok"
        THEN [raised |-> FALSE, answer |-> out.text, calls |-> <<call>>]
        ELSE [raised |-> TRUE, answer |-> None, calls |-> <<call>>]

_generate_answer_sync(question, context, history, out) ==
    LET system_text == IF context # <<>> THEN SYSTEM_PROMPT \o context
                       ELSE SYSTEM_PROMPT \o EmptyMarker
        messages == <<[role |-> "system", text |-> system_text]>>
                    \o [i \in 1..Len(history) |->
                          [role |-> history[i].role, text |-> history[i].content]]
                    \o <<[role |-> "user", text |-> question]>>
        call == Call("generate", context, messages, out)
    IN  IF out.kind = "ok"
        THEN [raised |-> FALSE, answer |-> out.text, calls |-> <<call>>]
        ELSE [raised |-> TRUE, answer |-> None, calls |-> <<call>>]

\* answer = _generate_answer_sync(question, context, history); return answer, chunks
RagGenerate(question, context, history, chunks, client, calls) ==
    {LET g == _generate_answer_sync(question, context, history, out)
     IN  [raised |-> g.raised, answer |-> g.answer,
          chunks |-> IF g.raised THEN <<>> ELSE chunks,
          client |-> client, calls |-> calls \o g.calls] : out \in GenerateOutcomes}

\* RagRelevance ignoring the verdict: the retrieved chunks are always kept
RagRelevanceIgnoringVerdict(question, history, s) ==
    UNION {LET r == _check_relevance_sync(question, s.chunks, out)
           IN  RagGenerate(question, Join(ChunkSeparator, s.chunks), history,
                           s.chunks, s.client, s.calls \o r.calls) :
           out \in RelevanceOutcomes}

\* steps 4-6 of the pipeline, after a search that found chunks
RagRelevance(question, history, s) ==
    UNION {LET r == _check_relevance_sync(question, s.chunks, out)
           IN  IF ~r.result
               THEN RagGenerate(question, <<>>, history, <<>>, s.client,
                                s.calls \o r.calls)
               ELSE RagGenerate(question, Join(ChunkSeparator, s.chunks), history,
                                s.chunks, s.client, s.calls \o r.calls) :
           out \in RelevanceOutcomes}

\* steps 3-6 of the pipeline
RagSearch(question, history, client) ==
    UNION {LET s == _search_index_sync(question, SearchMaxResults, client, out)
           IN  IF s.raised
               THEN {[raised |-> TRUE, answer |-> None, chunks |-> <<>>,
                      client |-> s.client, calls |-> s.calls]}
               ELSE IF s.chunks = <<>>
               THEN RagGenerate(question, <<>>, history, <<>>, s.client, s.calls)
               ELSE RagRelevance(question, history, s) :
           out \in SearchOutcomes}

\* _rag_pipeline_sync without step 1: a social message is treated as any other
rag_pipeline_without_greeting(question, history, client) ==
    IF _is_direct_task(question)
    THEN RagGenerate(question, <<>>, history, <<>>, client, <<>>)
    ELSE RagSearch(question, history, client)

\* _rag_pipeline_sync without step 2: a direct task goes through the search
rag_pipeline_without_direct_task(question, history, client) ==
    LET greeting_response == get_greeting_response(question)
    IN  IF greeting_response # None
        THEN {[raised |-> FALSE, answer |-> greeting_response, chunks |-> <<>>,
               client |-> client, calls |-> <<>>]}
        ELSE RagSearch(question, history, client)

_rag_pipeline_sync(question, history, client) ==
    LET greeting_response == get_greeting_response(question)
    IN  IF greeting_response # None
        THEN {[raised |-> FALSE, answer |-> greeting_response, chunks |-> <<>>,
               client |-> client, calls |-> <<>>]}
        ELSE IF _is_direct_task(question)
        THEN RagGenerate(question, <<>>, history, <<>>, client, <<>>)
        ELSE RagSearch(question, history, client)

\* the chat-name completion: a text, or a failure (exception or status)
NameOutcomes ==
    {[kind |-> "fail", text |-> <<>>]} \cup
    {[kind |-> "ok", text |-> t] :
        t \in { <<171, 1085, 1086, 1074, 1099, 1081, 32, 1095, 1072, 1090, 187>>,   \* "«новый чат»"
                <<34, 34>> }}   \* two quotation marks, an empty name

ChatNameMaxLen == 100
ChatNameFromMessageLen == 50
ChatNameFallbackLen == 30

_generate_chat_name_sync(message, out) ==
    IF out.kind = "ok"
    THEN LET chat_name == StripChars(Strip(out.text), {34, 39, 171, 187})
         IN  IF chat_name = <<>> \/ Len(chat_name) > ChatNameMaxLen
             THEN Take(message, ChatNameFromMessageLen)
             ELSE chat_name
    ELSE IF Len(message) > ChatNameFallbackLen
         THEN <<1063, 1072, 1090, 58, 32>> \o Take(message, ChatNameFallbackLen) \o <<46, 46, 46>>
         ELSE <<1063, 1072, 1090, 58, 32>> \o message

(***************************************************************************)
(* mongodb.py: the conversation store                                      *)
(***************************************************************************)
HistoryReadLimit == 1000     \* to_list(length=1000)
HistoryWindow == 20          \* get_history_for_rag(limit=20)

\* find({"thread_id": thread_id})
ThreadMessages(thread_id) == SelectSeq(chat_history, LAMBDA m : m.thread_id = thread_id)

\* .sort("message_id", 1): ascending, documents with equal keys in insertion order
SortByMessageId(s) == SortSeq(s, LAMBDA a, b : a.message_id < b.message_id)

get_chat_history(thread_id) ==
    Take(SortByMessageId(ThreadMessages(thread_id)), HistoryReadLimit)

\* find_one({"thread_id": thread_id}, sort=[("message_id", -1)]): the message_id
\* of the document with the greatest message_id, 0 when the thread has none
LastMessageId(thread_id) ==
    LET ms == SortByMessageId(ThreadMessages(thread_id))
    IN  IF ms = <<>> THEN 0 ELSE ms[Len(ms)].message_id

\* messages[-limit:]
LastN(s, n) == IF Len(s) <= n THEN s ELSE SubSeq(s, Len(s) - n + 1, Len(s))

get_history_for_rag(thread_id, limit) ==
    LET messages == LastN(get_chat_history(thread_id), limit)
    IN  [i \in 1..Len(messages) |->
            [role |-> messages[i].role, content |-> messages[i].content]]

get_chat_thread(thread_id) == {t \in chat_threads : t.thread_id = thread_id}

(***************************************************************************)
(* chat_service.process_message, one action per await                      *)
(***************************************************************************)
Procs == {1, 2}              \* concurrent request tasks; task p serves user p

NoThread == <<>>                         \* thread_id = None
ThreadId(n) == <<"thread", n>>           \* f"thread_{uuid.uuid4().hex[:16]}"
UnknownThread == <<"thread", 0>>         \* an id no thread in the store has

\* f"Чат от {now}": create_chat_thread's name when chat_name is empty
DefaultChatName == <<1063, 1072, 1090, 32, 1086, 1090, 32>>

\* the messages a client sends
LongPad == [i \in 1..95 |-> 1072]
Messages ==
    { <<32, 1055, 1088, 1080, 1074, 1077, 1090, 32>>,   \* " Привет "
      <<1055, 1054, 1050, 1040>>,   \* "ПОКА"
      <<1057, 1087, 1072, 1089, 1080, 1073, 1086>>,   \* "Спасибо"
      <<1087, 1088, 1080, 1074, 1077, 1090, 44, 32, 1087, 1088, 1086, 1074, 1077, 1088, 1100, 32, 1090, 1077, 1082, 1089, 1090>>,   \* "привет, проверь текст"
      <<1063, 1090, 1086, 32, 1090, 1072, 1082, 1086, 1077, 32, 82, 65, 71, 63>>,   \* "Что такое RAG?"
      <<116, 104, 97, 110, 107, 32, 32, 121, 111, 117>>,   \* "thank  you", two blanks
      LongPad \o <<1087, 1088, 1086, 1074, 1077, 1088, 1100>> }   \* 95 letters, then "проверь"

\* the messages of the runs with two concurrent tasks
ConcMessages ==
    { <<1087, 1086, 1082, 1072>>,   \* "пока"
      <<1055, 1088, 1086, 1074, 1077, 1088, 1100, 32, 1090, 1077, 1082, 1089, 1090>> }   \* "Проверь текст"

IdleTurn ==
    [pc |-> "idle", message |-> <<>>, request_thread_id |-> NoThread,
     thread_id |-> NoThread, chat_name |-> <<>>,
     history |-> <<>>, new_chat_created |-> FALSE, message_id |-> 0,
     answer |-> None, chunks |-> <<>>, calls |-> <<>>, rag |-> "none"]

Start(p, msgs) ==
    /\ turn[p].pc = "idle"
    /\ turns_started < MaxTurns
    /\ \E message \in msgs,
          thread_id \in {NoThread, UnknownThread} \cup {t.thread_id : t \in chat_threads} :
            turn' = [turn EXCEPT ![p] =
                        [IdleTurn EXCEPT
                            !.pc = IF thread_id # NoThread THEN "get_chat_thread"
                                   ELSE "generate_chat_name",
                            !.message = message,
                            !.request_thread_id = thread_id,
                            !.thread_id = thread_id]]
    /\ turns_started' = turns_started + 1
    /\ UNCHANGED <<settings, _openai_client, chat_threads, chat_history, uuid_counter>>
    /\ UNCHANGED idxVars

\* GetChatThread trusting the caller: an identifier the store does not know
\* is kept and the turn goes on as on an existing thread
GetChatThreadTrusting(p) ==
    /\ turn[p].pc = "get_chat_thread"
    /\ turn' = [turn EXCEPT ![p] = [@ EXCEPT !.pc = "get_history"]]
    /\ UNCHANGED <<settings, _openai_client, chat_threads, chat_history,
                   uuid_counter, turns_started>>
    /\ UNCHANGED idxVars

GetChatThread(p) ==
    /\ turn[p].pc = "get_chat_thread"
    /\ turn' = [turn EXCEPT ![p] =
                  IF get_chat_thread(turn[p].thread_id) = {}
                  THEN [@ EXCEPT !.thread_id = NoThread, !.pc = "generate_chat_name"]
                  ELSE [@ EXCEPT !.pc = "get_history"]]
    /\ UNCHANGED <<settings, _openai_client, chat_threads, chat_history,
                   uuid_counter, turns_started>>
    /\ UNCHANGED idxVars

GenerateChatName(p) ==
    /\ turn[p].pc = "generate_chat_name"
    /\ \E out \in NameOutcomes :
          turn' = [turn EXCEPT ![p] =
                      [@ EXCEPT !.thread_id = ThreadId(uuid_counter + 1),
                                !.chat_name = _generate_chat_name_sync(turn[p].message, out),
                                !.calls = Append(@, Call("chat_name", turn[p].message, <<>>, out)),
                                !.pc = "create_chat_thread"]]
    /\ uuid_counter' = uuid_counter + 1
    /\ UNCHANGED <<settings, _openai_client, chat_threads, chat_history, turns_started>>
    /\ UNCHANGED idxVars

create_chat_thread(user_id, thread_id, chat_name) ==
    chat_threads \cup
        {[thread_id |-> thread_id, user_id |-> user_id,
          chat_name |-> IF chat_name = <<>> THEN DefaultChatName ELSE chat_name,
          updated_at |-> 0]}

CreateChatThread(p) ==
    /\ turn[p].pc = "create_chat_thread"
    /\ chat_threads' = create_chat_thread(p, turn[p].thread_id, turn[p].chat_name)
    /\ turn' = [turn EXCEPT ![p] =
                  [@ EXCEPT !.new_chat_created = TRUE, !.history = <<>>,
                            !.pc = "user_find"]]
    /\ UNCHANGED <<settings, _openai_client, chat_history, uuid_counter, turns_started>>
    /\ UNCHANGED idxVars

\* GetHistory going on to the pipeline before the user message is stored
GetHistoryThenPipeline(p) ==
    /\ turn[p].pc = "get_history"
    /\ turn' = [turn EXCEPT ![p] =
                  [@ EXCEPT !.history = get_history_for_rag(turn[p].thread_id, HistoryWindow),
                            !.pc = "rag_pipeline"]]
    /\ UNCHANGED <<settings, _openai_client, chat_threads, chat_history,
                   uuid_counter, turns_started>>
    /\ UNCHANGED idxVars

GetHistory(p) ==
    /\ turn[p].pc = "get_history"
    /\ turn' = [turn EXCEPT ![p] =
                  [@ EXCEPT !.history = get_history_for_rag(turn[p].thread_id, HistoryWindow),
                            !.pc = "user_find"]]
    /\ UNCHANGED <<settings, _openai_client, chat_threads, chat_history,
                   uuid_counter, turns_started>>
    /\ UNCHANGED idxVars

\* add_message numbering from the last message_id plus two
NextMessageIdSkipping(thread_id) == LastMessageId(thread_id) + 2

\* add_message, first await: find_one(..., sort=[("message_id", -1)])
NextMessageId(thread_id) == LastMessageId(thread_id) + 1

AddMessageFind(p) ==
    /\ turn[p].pc \in {"user_find", "asst_find"}
    /\ turn' = [turn EXCEPT ![p] =
                  [@ EXCEPT !.message_id = NextMessageId(turn[p].thread_id),
                            !.pc = IF turn[p].pc = "user_find" THEN "user_insert"
                                   ELSE "asst_insert"]]
    /\ UNCHANGED <<settings, _openai_client, chat_threads, chat_history,
                   uuid_counter, turns_started>>
    /\ UNCHANGED idxVars

\* MessageDocument recording chunks_used 0 whatever the pipeline returned
MessageDocumentWithoutCount(p) ==
    IF turn[p].pc = "user_insert"
    THEN [user_id |-> p, thread_id |-> turn[p].thread_id,
          message_id |-> turn[p].message_id, role |-> "user",
          content |-> turn[p].message, meta |-> {}]
    ELSE [user_id |-> p, thread_id |-> turn[p].thread_id,
          message_id |-> turn[p].message_id, role |-> "assistant",
          content |-> turn[p].answer,
          meta |-> {<<"chunks_used", 0>>}]

\* add_message, second await: insert_one(document)
MessageDocument(p) ==
    IF turn[p].pc = "user_insert"
    THEN [user_id |-> p, thread_id |-> turn[p].thread_id,
          message_id |-> turn[p].message_id, role |-> "user",
          content |-> turn[p].message, meta |-> {}]
    ELSE [user_id |-> p, thread_id |-> turn[p].thread_id,
          message_id |-> turn[p].message_id, role |-> "assistant",
          content |-> turn[p].answer,
          meta |-> {<<"chunks_used", Len(turn[p].chunks)>>}]

AddMessageInsert(p) ==
    /\ turn[p].pc \in {"user_insert", "asst_insert"}
    /\ chat_history' = Append(chat_history, MessageDocument(p))
    /\ turn' = [turn EXCEPT ![p] =
                  [@ EXCEPT !.pc = IF turn[p].pc = "user_insert" THEN "user_touch"
                                   ELSE "asst_touch"]]
    /\ UNCHANGED <<settings, _openai_client, chat_threads, uuid_counter, turns_started>>
    /\ UNCHANGED idxVars

\* update_chat_thread also writing the name: every update marks it
update_chat_thread_renaming(thread_id) ==
    {IF t.thread_id = thread_id
     THEN [t EXCEPT !.updated_at = @ + 1, !.chat_name = @ \o <<33>>] ELSE t :
        t \in chat_threads}

\* update_chat_thread(thread_id, {}): only updated_at is set
update_chat_thread(thread_id) ==
    {IF t.thread_id = thread_id THEN [t EXCEPT !.updated_at = @ + 1] ELSE t :
        t \in chat_threads}

\* AddMessageTouch after which process_message reads the history again, the
\* user message being stored
AddMessageTouchRereading(p) ==
    /\ turn[p].pc \in {"user_touch", "asst_touch"}
    /\ chat_threads' = update_chat_thread(turn[p].thread_id)
    /\ turn' = [turn EXCEPT ![p] =
                  IF turn[p].pc = "user_touch"
                  THEN [@ EXCEPT !.history = get_history_for_rag(turn[p].thread_id, HistoryWindow),
                                 !.pc = "rag_pipeline"]
                  ELSE [@ EXCEPT !.pc = "done"]]
    /\ UNCHANGED <<settings, _openai_client, chat_history, uuid_counter, turns_started>>
    /\ UNCHANGED idxVars

\* add_message, third await; process_message then goes on
AddMessageTouch(p) ==
    /\ turn[p].pc \in {"user_touch", "asst_touch"}
    /\ chat_threads' = update_chat_thread(turn[p].thread_id)
    /\ turn' = [turn EXCEPT ![p] =
                  [@ EXCEPT !.pc = IF turn[p].pc = "user_touch" THEN "rag_pipeline"
                                   ELSE "done"]]
    /\ UNCHANGED <<settings, _openai_client, chat_history, uuid_counter, turns_started>>
    /\ UNCHANGED idxVars

\* await yandex_service.rag_pipeline(question, history)
RagPipeline(p) ==
    /\ turn[p].pc = "rag_pipeline"
    /\ \E r \in _rag_pipeline_sync(turn[p].message, turn[p].history, _openai_client) :
              /\ _openai_client' = r.client
              /\ turn' = [turn EXCEPT ![p] =
                            [@ EXCEPT !.answer = r.answer,
                                      !.chunks = r.chunks,
                                      !.calls = @ \o r.calls,
                                      !.rag = IF r.raised THEN "raised" ELSE "returned",
                                      !.pc = IF r.raised THEN "failed" ELSE "asst_find"]]
    /\ UNCHANGED <<settings, chat_threads, chat_history, uuid_counter, turns_started>>
    /\ UNCHANGED idxVars

\* routers/chat.main_thread answered (200 after "done", 500 after "failed")
Return(p) ==
    /\ turn[p].pc \in {"done", "failed"}
    /\ turn' = [turn EXCEPT ![p] = IdleTurn]
    /\ UNCHANGED <<settings, _openai_client, chat_threads, chat_history,
                   uuid_counter, turns_started>>
    /\ UNCHANGED idxVars

\* routers/chat.main_thread: what the caller gets when process_message has
\* returned ("done") or an exception has left it ("failed")
FailureDetail == "Failed to process message"

main_thread(p) ==
    IF turn[p].pc = "done"
    THEN [status_code |-> 200, message |-> turn[p].answer,
          thread_id |-> turn[p].thread_id,
          new_chat_created |-> turn[p].new_chat_created]
    ELSE [status_code |-> 500, detail |-> FailureDetail]

\* add_message when the database is not reachable: the awaited call raises,
\* nothing add_message has not yet done is done, and the exception leaves
\* process_message, which has no handler
AddMessageFindRaises(p) ==
    /\ turn[p].pc \in {"user_find", "asst_find"}
    /\ turn' = [turn EXCEPT ![p] = [@ EXCEPT !.pc = "failed"]]
    /\ UNCHANGED <<settings, _openai_client, chat_threads, chat_history,
                   uuid_counter, turns_started>>
    /\ UNCHANGED idxVars

AddMessageInsertRaises(p) ==
    /\ turn[p].pc \in {"user_insert", "asst_insert"}
    /\ turn' = [turn EXCEPT ![p] = [@ EXCEPT !.pc = "failed"]]
    /\ UNCHANGED <<settings, _openai_client, chat_threads, chat_history,
                   uuid_counter, turns_started>>
    /\ UNCHANGED idxVars

AddMessageTouchRaises(p) ==
    /\ turn[p].pc \in {"user_touch", "asst_touch"}
    /\ turn' = [turn EXCEPT ![p] = [@ EXCEPT !.pc = "failed"]]
    /\ UNCHANGED <<settings, _openai_client, chat_threads, chat_history,
                   uuid_counter, turns_started>>
    /\ UNCHANGED idxVars

(***************************************************************************)
(* routers/chat.delete_chat and mongodb.delete_chat_thread, one action per *)
(* await; the task's locals are kept in turn[p]                             *)
(***************************************************************************)
StartDeleteChat(p) ==
    /\ turn[p].pc = "idle"
    /\ turns_started < MaxTurns
    /\ \E thread_id \in {UnknownThread} \cup {t.thread_id : t \in chat_threads} :
            turn' = [turn EXCEPT ![p] =
                        [IdleTurn EXCEPT !.pc = "delete_messages",
                                         !.request_thread_id = thread_id,
                                         !.thread_id = thread_id]]
    /\ turns_started' = turns_started + 1
    /\ UNCHANGED <<settings, _openai_client, chat_threads, chat_history, uuid_counter>>
    /\ UNCHANGED idxVars

\* await db.chat_history.delete_many({"thread_id": thread_id})
DeleteChatMessages(p) ==
    /\ turn[p].pc = "delete_messages"
    /\ chat_history' = SelectSeq(chat_history,
                                 LAMBDA m : m.thread_id # turn[p].thread_id)
    /\ turn' = [turn EXCEPT ![p] = [@ EXCEPT !.pc = "delete_thread"]]
    /\ UNCHANGED <<settings, _openai_client, chat_threads, uuid_counter, turns_started>>
    /\ UNCHANGED idxVars

\* result = await db.chat_threads.delete_one({"thread_id": thread_id});
\* return result.deleted_count > 0
DeleteChatThread(p) ==
    /\ turn[p].pc = "delete_thread"
    /\ chat_threads' = {t \in chat_threads : t.thread_id # turn[p].thread_id}
    /\ turn' = [turn EXCEPT ![p] =
                  [@ EXCEPT !.pc = IF get_chat_thread(turn[p].thread_id) # {}
                                   THEN "deleted" ELSE "not_found"]]
    /\ UNCHANGED <<settings, _openai_client, chat_history, uuid_counter, turns_started>>
    /\ UNCHANGED idxVars

\* routers/chat.delete_chat answered (200 after "deleted", 404 after "not_found")
DeleteChatReturn(p) ==
    /\ turn[p].pc \in {"deleted", "not_found"}
    /\ turn' = [turn EXCEPT ![p] = IdleTurn]
    /\ UNCHANGED <<settings, _openai_client, chat_threads, chat_history,
                   uuid_counter, turns_started>>
    /\ UNCHANGED idxVars

(***************************************************************************)
(* file_service, the files and settings collections of mongodb.py, and the *)
(* Knowledge Store: the documents and the vector store built from them     *)
(***************************************************************************)
ALLOWED_EXTENSIONS ==
    {
      <<116, 120, 116>>,   \* "txt"
      <<112, 100, 102>>,   \* "pdf"
      <<100, 111, 99>>,   \* "doc"
      <<100, 111, 99, 120>>,   \* "docx"
      <<109, 100>>,   \* "md"
      <<106, 115, 111, 110>>,   \* "json"
      <<99, 115, 118>>,   \* "csv"
      <<120, 108, 115>>,   \* "xls"
      <<120, 108, 115, 120>> }   \* "xlsx"
MAX_FILE_SIZE == 30 * 1024 * 1024
MAX_FILES_PER_UPLOAD == 10
ActiveFilesReadLimit == 1000     \* to_list(length=1000)

\* filename.rsplit('.', 1)[1].lower() when the name has a dot, '' otherwise
get_file_extension(filename) ==
    LET dots == {i \in 1..Len(filename) : filename[i] = 46}
    IN  IF dots = {} THEN <<>>
        ELSE LET last == CHOOSE i \in dots : \A j \in dots : j <= i
             IN  SubSeq(Lower(filename), last + 1, Len(filename))

is_allowed_file(filename) == get_file_extension(filename) \in ALLOWED_EXTENSIONS

\* bool(x) of an Optional[str]: None and "" are false
Truthy(x) == x # None /\ x # <<>>

\* the ids the Knowledge Store hands out
FileObject(n) == <<"file", n>>
VectorStore(n) == <<"vs", n>>

\* mongodb.get_current_vector_store_id: the value of the settings document,
\* None when there is no such document
get_current_vector_store_id == db_vector_store_id

\* mongodb.create_file_record: the collection with the new document appended;
\* file_id stands for str(uuid.uuid4())
create_file_record(filename, file_size, yandex_file_id, status) ==
    Append(files, [file_id |-> Len(files) + 1, filename |-> filename,
                   file_size |-> file_size, yandex_file_id |-> yandex_file_id,
                   status |-> status])

\* get_all_active_files without the status filter
get_all_files_ignoring_status == Take(files, ActiveFilesReadLimit)

\* mongodb.get_all_active_files: find({"status": {"$ne": "deleted"}})
get_all_active_files ==
    Take(SelectSeq(files, LAMBDA f : f.status # "deleted"), ActiveFilesReadLimit)

\* mongodb.get_file_by_id / the find_one of delete_file_record: the documents
\* with that file_id, whatever their status
get_file_by_id(file_id) == SelectSeq(files, LAMBDA f : f.file_id = file_id)

\* mongodb.update_file_status: update_one({"file_id": file_id}, {"$set": {"status": status}})
update_file_status(file_id, status) ==
    [i \in 1..Len(files) |->
        IF files[i].file_id = file_id THEN [files[i] EXCEPT !.status = status]
        ELSE files[i]]

\* mongodb.delete_all_files removing the documents: delete_many({})
delete_all_files_removing == SubSeq(files, 1, 0)

\* mongodb.delete_all_files: update_many({"status": {"$ne": "deleted"}}, deleted)
mongodb_delete_all_files ==
    [i \in 1..Len(files) |-> [files[i] EXCEPT !.status = "deleted"]]

\* yandex_service.upload_file_to_yandex: the id of the stored object
upload_file_to_yandex == FileObject(yandex_counter + 1)

\* yandex_service.delete_file_from_yandex: the stored objects without that one
delete_file_from_yandex(yandex_file_id) == storage_files \ {yandex_file_id}

\* yandex_service.create_vector_store: a new vector store over the given files
create_vector_store(yandex_file_ids) ==
    [id |-> VectorStore(yandex_counter + 1),
     file_ids |-> {yandex_file_ids[i] : i \in 1..Len(yandex_file_ids)}]

\* yandex_service.delete_vector_store: the vector stores without that one
delete_vector_store(vector_store_id) ==
    {v \in vector_stores : v.id # vector_store_id}

\* a call on the Knowledge Store or on the bound-index pointer, as a task made it
IndexCall(op, arg, ok) == [op |-> op, arg |-> arg, ok |-> ok]

\* the locals of a file operation that is not running
IdleOp ==
    [pc |-> "idle", kind |-> "none", batch |-> <<>>, i |-> 0, reads |-> 0,
     file_id |-> 0, yandex_file_id |-> <<>>, active |-> <<>>,
     uploaded_files |-> <<>>, errors |-> <<>>, deleted_count |-> 0,
     files_count |-> 0,
     old_vector_store_id |-> None, yandex_file_ids |-> <<>>,
     new_vector_store_id |-> None, rebuild |-> "none", calls |-> <<>>,
     result |-> "none"]

\* _rebuild_vector_store raised: the exception reaches its caller
RebuildRaised(op, call) ==
    [op EXCEPT !.rebuild = "raised", !.calls = Append(@, call), !.pc = "rb_return"]

\* old_vector_store_id = await mongodb.get_current_vector_store_id()
RebuildReadId(p) ==
    /\ fop[p].pc = "rb_read_id"
    /\ fop' = [fop EXCEPT ![p] =
                 [@ EXCEPT !.old_vector_store_id = get_current_vector_store_id,
                           !.new_vector_store_id = None,
                           !.rebuild = "running",
                           !.pc = "rb_read_files"]]
    /\ UNCHANGED <<files, db_vector_store_id, _vector_store_id, _indexing_status,
                   vector_stores, storage_files, yandex_counter, ops_started>>
    /\ UNCHANGED chatVars

\* files = await mongodb.get_all_active_files(), and the branch on yandex_file_ids
RebuildReadFiles(p) ==
    /\ fop[p].pc = "rb_read_files"
    /\ LET active == get_all_active_files
           with_id == SelectSeq(active, LAMBDA f : Truthy(f.yandex_file_id))
           yandex_file_ids == [i \in 1..Len(with_id) |-> with_id[i].yandex_file_id]
       IN  fop' = [fop EXCEPT ![p] =
                     [@ EXCEPT !.yandex_file_ids = yandex_file_ids,
                               !.pc = IF yandex_file_ids # <<>> THEN "rb_create"
                                      ELSE IF Truthy(fop[p].old_vector_store_id)
                                      THEN "rb_clear_delete"
                                      ELSE "rb_clear_persist"]]
    /\ UNCHANGED <<files, db_vector_store_id, _vector_store_id, _indexing_status,
                   vector_stores, storage_files, yandex_counter, ops_started>>
    /\ UNCHANGED chatVars

\* RebuildClearDelete leaving the old vector store in the Knowledge Store
RebuildClearKeepingStore(p) ==
    /\ fop[p].pc = "rb_clear_delete"
    /\ fop' = [fop EXCEPT ![p] = [@ EXCEPT !.pc = "rb_clear_persist"]]
    /\ UNCHANGED <<files, db_vector_store_id, _vector_store_id, _indexing_status,
                   vector_stores, storage_files, yandex_counter, ops_started>>
    /\ UNCHANGED chatVars

\* no files: await yandex_service.delete_vector_store(old_vector_store_id)
RebuildClearDelete(p) ==
    /\ fop[p].pc = "rb_clear_delete"
    /\ LET old == fop[p].old_vector_store_id
       IN  \/ /\ \E v \in vector_stores : v.id = old
              /\ vector_stores' = delete_vector_store(old)
              /\ fop' = [fop EXCEPT ![p] =
                           [@ EXCEPT !.calls = Append(@, IndexCall("delete_vector_store", old, TRUE)),
                                     !.pc = "rb_clear_persist"]]
           \/ /\ vector_stores' = vector_stores
              /\ fop' = [fop EXCEPT ![p] =
                           RebuildRaised(@, IndexCall("delete_vector_store", old, FALSE))]
    /\ UNCHANGED <<files, db_vector_store_id, _vector_store_id, _indexing_status,
                   storage_files, yandex_counter, ops_started>>
    /\ UNCHANGED chatVars

\* no files: await mongodb.set_current_vector_store_id("")
RebuildClearPersist(p) ==
    /\ fop[p].pc = "rb_clear_persist"
    /\ db_vector_store_id' = <<>>
    /\ fop' = [fop EXCEPT ![p] =
                 [@ EXCEPT !.calls = Append(@, IndexCall("set_current_vector_store_id", <<>>, TRUE)),
                           !.pc = "rb_clear_cache"]]
    /\ UNCHANGED <<files, _vector_store_id, _indexing_status,
                   vector_stores, storage_files, yandex_counter, ops_started>>
    /\ UNCHANGED chatVars

\* no files: yandex_service.set_vector_store_id(""); return None
RebuildClearCache(p) ==
    /\ fop[p].pc = "rb_clear_cache"
    /\ _vector_store_id' = <<>>
    /\ fop' = [fop EXCEPT ![p] = [@ EXCEPT !.rebuild = "returned", !.pc = "rb_return"]]
    /\ UNCHANGED <<files, db_vector_store_id, _indexing_status,
                   vector_stores, storage_files, yandex_counter, ops_started>>
    /\ UNCHANGED chatVars

\* RebuildCreate tearing the previous store down before it creates the new one
RebuildCreateAfterTeardown(p) ==
    /\ fop[p].pc = "rb_create"
    /\ LET ids == fop[p].yandex_file_ids
           old == fop[p].old_vector_store_id
           new == create_vector_store(ids)
           teardown == IF Truthy(old)
                       THEN <<IndexCall("delete_vector_store", old, TRUE)>> ELSE <<>>
       IN  \/ /\ vector_stores' = delete_vector_store(old) \cup {new}
              /\ yandex_counter' = yandex_counter + 1
              /\ fop' = [fop EXCEPT ![p] =
                           [@ EXCEPT !.new_vector_store_id = new.id,
                                     !.calls = @ \o teardown \o
                                         <<IndexCall("create_vector_store", ids, TRUE)>>,
                                     !.pc = "rb_persist"]]
           \/ /\ UNCHANGED <<vector_stores, yandex_counter>>
              /\ fop' = [fop EXCEPT ![p] =
                           RebuildRaised(@, IndexCall("create_vector_store", ids, FALSE))]
    /\ UNCHANGED <<files, db_vector_store_id, _vector_store_id, _indexing_status,
                   storage_files, ops_started>>
    /\ UNCHANGED chatVars

\* RebuildCreate clearing the pointer when create_vector_store fails
RebuildCreateClearingOnFailure(p) ==
    /\ fop[p].pc = "rb_create"
    /\ LET ids == fop[p].yandex_file_ids
           new == create_vector_store(ids)
       IN  \/ /\ vector_stores' = vector_stores \cup {new}
              /\ yandex_counter' = yandex_counter + 1
              /\ db_vector_store_id' = db_vector_store_id
              /\ fop' = [fop EXCEPT ![p] =
                           [@ EXCEPT !.new_vector_store_id = new.id,
                                     !.calls = Append(@, IndexCall("create_vector_store", ids, TRUE)),
                                     !.pc = "rb_persist"]]
           \/ /\ UNCHANGED <<vector_stores, yandex_counter>>
              /\ db_vector_store_id' = <<>>
              /\ fop' = [fop EXCEPT ![p] =
                           RebuildRaised(@, IndexCall("create_vector_store", ids, FALSE))]
    /\ UNCHANGED <<files, _vector_store_id, _indexing_status,
                   storage_files, ops_started>>
    /\ UNCHANGED chatVars

\* new_vector_store_id = await yandex_service.create_vector_store(yandex_file_ids)
RebuildCreate(p) ==
    /\ fop[p].pc = "rb_create"
    /\ LET ids == fop[p].yandex_file_ids
           new == create_vector_store(ids)
       IN  \/ /\ vector_stores' = vector_stores \cup {new}
              /\ yandex_counter' = yandex_counter + 1
              /\ fop' = [fop EXCEPT ![p] =
                           [@ EXCEPT !.new_vector_store_id = new.id,
                                     !.calls = Append(@, IndexCall("create_vector_store", ids, TRUE)),
                                     !.pc = "rb_persist"]]
           \/ /\ UNCHANGED <<vector_stores, yandex_counter>>
              /\ fop' = [fop EXCEPT ![p] =
                           RebuildRaised(@, IndexCall("create_vector_store", ids, FALSE))]
    /\ UNCHANGED <<files, db_vector_store_id, _vector_store_id, _indexing_status,
                   storage_files, ops_started>>
    /\ UNCHANGED chatVars

\* await mongodb.set_current_vector_store_id(new_vector_store_id)
RebuildPersist(p) ==
    /\ fop[p].pc = "rb_persist"
    /\ db_vector_store_id' = fop[p].new_vector_store_id
    /\ fop' = [fop EXCEPT ![p] =
                 [@ EXCEPT !.calls = Append(@, IndexCall("set_current_vector_store_id",
                                                         fop[p].new_vector_store_id, TRUE)),
                           !.pc = "rb_set_cache"]]
    /\ UNCHANGED <<files, _vector_store_id, _indexing_status,
                   vector_stores, storage_files, yandex_counter, ops_started>>
    /\ UNCHANGED chatVars

\* yandex_service.set_vector_store_id(new_vector_store_id), and the test of
\* old_vector_store_id that follows it
RebuildSetCache(p) ==
    /\ fop[p].pc = "rb_set_cache"
    /\ _vector_store_id' = fop[p].new_vector_store_id
    /\ fop' = [fop EXCEPT ![p] =
                 IF /\ Truthy(fop[p].old_vector_store_id)
                    /\ fop[p].old_vector_store_id # fop[p].new_vector_store_id
                 THEN [@ EXCEPT !.pc = "rb_delete_old"]
                 ELSE [@ EXCEPT !.rebuild = "returned", !.pc = "rb_return"]]
    /\ UNCHANGED <<files, db_vector_store_id, _indexing_status,
                   vector_stores, storage_files, yandex_counter, ops_started>>
    /\ UNCHANGED chatVars

\* await yandex_service.delete_vector_store(old_vector_store_id); return
RebuildDeleteOld(p) ==
    /\ fop[p].pc = "rb_delete_old"
    /\ LET old == fop[p].old_vector_store_id
       IN  \/ /\ \E v \in vector_stores : v.id = old
              /\ vector_stores' = delete_vector_store(old)
              /\ fop' = [fop EXCEPT ![p] =
                           [@ EXCEPT !.calls = Append(@, IndexCall("delete_vector_store", old, TRUE)),
                                     !.rebuild = "returned",
                                     !.pc = "rb_return"]]
           \/ /\ vector_stores' = vector_stores
              /\ fop' = [fop EXCEPT ![p] =
                           RebuildRaised(@, IndexCall("delete_vector_store", old, FALSE))]
    /\ UNCHANGED <<files, db_vector_store_id, _vector_store_id, _indexing_status,
                   storage_files, yandex_counter, ops_started>>
    /\ UNCHANGED chatVars

\* the files a client uploads: a document, a file of a type that is not
\* allowed, a file above the size limit, a document without a dot in its name
UploadDocument == [filename |-> <<97, 46, 80, 68, 70>>, size |-> 1024]   \* "a.PDF"
UploadProgram == [filename |-> <<98, 46, 101, 120, 101>>, size |-> 1024]   \* "b.exe"
UploadTooBig == [filename |-> <<99, 46, 116, 120, 116>>, size |-> MAX_FILE_SIZE + 1]   \* "c.txt"
UploadBatches ==
    { <<UploadDocument>>,
      <<UploadDocument, UploadProgram, UploadTooBig, UploadDocument>>,
      [i \in 1..(MAX_FILES_PER_UPLOAD + 1) |-> UploadDocument] }

\* the loop of upload_files goes on with the next file, or upload_files returns:
\* to the router, or to upload_files_with_indexing and its "if uploaded_files"
AfterFile(op) ==
    IF op.i < Len(op.batch) THEN [op EXCEPT !.i = @ + 1, !.pc = "up_file"]
    ELSE IF op.kind = "upload_files_with_indexing" /\ op.uploaded_files # <<>>
    THEN [op EXCEPT !.pc = "rb_read_id"]
    ELSE [op EXCEPT !.result = "ok", !.pc = "done"]

\* upload_files without the test of the number of files
StartUploadUnlimited(p) ==
    /\ fop[p].pc \in {"idle", "done"}
    /\ ops_started < MaxOps
    /\ \E kind \in {"upload_files", "upload_files_with_indexing"}, batch \in UploadBatches :
          fop' = [fop EXCEPT ![p] =
                    [IdleOp EXCEPT !.kind = kind, !.batch = batch,
                                   !.i = 1, !.pc = "up_file"]]
    /\ ops_started' = ops_started + 1
    /\ UNCHANGED <<files, db_vector_store_id, _vector_store_id, _indexing_status,
                   vector_stores, storage_files, yandex_counter>>
    /\ UNCHANGED chatVars

\* upload_files / upload_files_with_indexing is called; more than
\* MAX_FILES_PER_UPLOAD files raise ValueError before any file is looked at
StartUpload(p) ==
    /\ fop[p].pc \in {"idle", "done"}
    /\ ops_started < MaxOps
    /\ \E kind \in {"upload_files", "upload_files_with_indexing"}, batch \in UploadBatches :
          fop' = [fop EXCEPT ![p] =
                    IF Len(batch) > MAX_FILES_PER_UPLOAD
                    THEN [IdleOp EXCEPT !.kind = kind, !.batch = batch,
                                        !.result = "rejected", !.pc = "done"]
                    ELSE [IdleOp EXCEPT !.kind = kind, !.batch = batch,
                                        !.i = 1, !.pc = "up_file"]]
    /\ ops_started' = ops_started + 1
    /\ UNCHANGED <<files, db_vector_store_id, _vector_store_id, _indexing_status,
                   vector_stores, storage_files, yandex_counter>>
    /\ UNCHANGED chatVars

\* routers/files.upload_files: the status of the answer to an upload request
\* that has ended; the ValueError of upload_files becomes a 400
upload_files_status_code(op) ==
    IF op.result = "rejected" THEN 400 ELSE 200

\* UploadFile as an all-or-nothing batch: the first file that is refused ends
\* the request
UploadFileAborting(p) ==
    /\ fop[p].pc = "up_file"
    /\ LET file == fop[p].batch[fop[p].i]
       IN  fop' = [fop EXCEPT ![p] =
                     IF ~is_allowed_file(file.filename)
                     THEN [@ EXCEPT !.errors = Append(@, "type"),
                                    !.result = "ok", !.pc = "done"]
                     ELSE IF file.size > MAX_FILE_SIZE
                     THEN [@ EXCEPT !.reads = @ + 1, !.errors = Append(@, "size"),
                                    !.result = "ok", !.pc = "done"]
                     ELSE [@ EXCEPT !.reads = @ + 1, !.pc = "up_send"]]
    /\ UNCHANGED <<files, db_vector_store_id, _vector_store_id, _indexing_status,
                   vector_stores, storage_files, yandex_counter, ops_started>>
    /\ UNCHANGED chatVars

\* one file of the batch: the type test, content = await file.read(), the size test
UploadFile(p) ==
    /\ fop[p].pc = "up_file"
    /\ LET file == fop[p].batch[fop[p].i]
       IN  fop' = [fop EXCEPT ![p] =
                     IF ~is_allowed_file(file.filename)
                     THEN AfterFile([@ EXCEPT !.errors = Append(@, "type")])
                     ELSE IF file.size > MAX_FILE_SIZE
                     THEN AfterFile([@ EXCEPT !.reads = @ + 1,
                                              !.errors = Append(@, "size")])
                     ELSE [@ EXCEPT !.reads = @ + 1, !.pc = "up_send"]]
    /\ UNCHANGED <<files, db_vector_store_id, _vector_store_id, _indexing_status,
                   vector_stores, storage_files, yandex_counter, ops_started>>
    /\ UNCHANGED chatVars

\* yandex_file_id = await yandex_service.upload_file_to_yandex(content, filename);
\* an exception becomes an entry of errors
UploadSend(p) ==
    /\ fop[p].pc = "up_send"
    /\ \/ /\ storage_files' = storage_files \cup {upload_file_to_yandex}
          /\ yandex_counter' = yandex_counter + 1
          /\ fop' = [fop EXCEPT ![p] =
                       [@ EXCEPT !.yandex_file_id = upload_file_to_yandex,
                                 !.pc = "up_record"]]
       \/ /\ UNCHANGED <<storage_files, yandex_counter>>
          /\ fop' = [fop EXCEPT ![p] = AfterFile([@ EXCEPT !.errors = Append(@, "upload")])]
    /\ UNCHANGED <<files, db_vector_store_id, _vector_store_id, _indexing_status,
                   vector_stores, ops_started>>
    /\ UNCHANGED chatVars

\* file_record = await mongodb.create_file_record(..., status="uploaded")
UploadRecord(p) ==
    /\ fop[p].pc = "up_record"
    /\ LET file == fop[p].batch[fop[p].i]
       IN  files' = create_file_record(file.filename, file.size,
                                       fop[p].yandex_file_id, "uploaded")
    /\ fop' = [fop EXCEPT ![p] =
                 AfterFile([@ EXCEPT !.uploaded_files = Append(@, Len(files) + 1)])]
    /\ UNCHANGED <<db_vector_store_id, _vector_store_id, _indexing_status,
                   vector_stores, storage_files, yandex_counter, ops_started>>
    /\ UNCHANGED chatVars

\* upload_files_with_indexing after the rebuild:
\* await mongodb.update_file_status(f["file_id"], "ready"), one file per step
UploadReady(p) ==
    /\ fop[p].pc = "up_ready"
    /\ files' = update_file_status(fop[p].uploaded_files[fop[p].i], "ready")
    /\ fop' = [fop EXCEPT ![p] =
                 IF fop[p].i < Len(fop[p].uploaded_files)
                 THEN [@ EXCEPT !.i = @ + 1]
                 ELSE [@ EXCEPT !.result = "ok", !.pc = "done"]]
    /\ UNCHANGED <<db_vector_store_id, _vector_store_id, _indexing_status,
                   vector_stores, storage_files, yandex_counter, ops_started>>
    /\ UNCHANGED chatVars

\* delete_file(file_id) is called, for a file_id of the collection or another
StartDelete(p) ==
    /\ fop[p].pc \in {"idle", "done"}
    /\ ops_started < MaxOps
    /\ \E file_id \in 0..Len(files) :
          fop' = [fop EXCEPT ![p] =
                    [IdleOp EXCEPT !.kind = "delete_file", !.file_id = file_id,
                                   !.pc = "del_find"]]
    /\ ops_started' = ops_started + 1
    /\ UNCHANGED <<files, db_vector_store_id, _vector_store_id, _indexing_status,
                   vector_stores, storage_files, yandex_counter>>
    /\ UNCHANGED chatVars

\* delete_file_record, first await: find_one({"file_id": file_id}); without a
\* document delete_file raises ValueError
DeleteFind(p) ==
    /\ fop[p].pc = "del_find"
    /\ LET found == get_file_by_id(fop[p].file_id)
       IN  fop' = [fop EXCEPT ![p] =
                     IF found = <<>>
                     THEN [@ EXCEPT !.result = "not_found", !.pc = "done"]
                     ELSE [@ EXCEPT !.yandex_file_id = found[1].yandex_file_id,
                                    !.pc = "del_mark"]]
    /\ UNCHANGED <<files, db_vector_store_id, _vector_store_id, _indexing_status,
                   vector_stores, storage_files, yandex_counter, ops_started>>
    /\ UNCHANGED chatVars

\* delete_file_record, second await: update_one(..., status "deleted")
DeleteMark(p) ==
    /\ fop[p].pc = "del_mark"
    /\ files' = update_file_status(fop[p].file_id, "deleted")
    /\ fop' = [fop EXCEPT ![p] =
                 [@ EXCEPT !.pc = IF Truthy(fop[p].yandex_file_id) THEN "del_storage"
                                  ELSE "rb_read_id"]]
    /\ UNCHANGED <<db_vector_store_id, _vector_store_id, _indexing_status,
                   vector_stores, storage_files, yandex_counter, ops_started>>
    /\ UNCHANGED chatVars

\* await yandex_service.delete_file_from_yandex(file["yandex_file_id"]), outside
\* any try: an exception leaves delete_file
DeleteStorage(p) ==
    /\ fop[p].pc = "del_storage"
    /\ \/ /\ fop[p].yandex_file_id \in storage_files
          /\ storage_files' = delete_file_from_yandex(fop[p].yandex_file_id)
          /\ fop' = [fop EXCEPT ![p] = [@ EXCEPT !.pc = "rb_read_id"]]
       \/ /\ storage_files' = storage_files
          /\ fop' = [fop EXCEPT ![p] = [@ EXCEPT !.result = "error", !.pc = "done"]]
    /\ UNCHANGED <<files, db_vector_store_id, _vector_store_id, _indexing_status,
                   vector_stores, yandex_counter, ops_started>>
    /\ UNCHANGED chatVars

\* delete_all_files() is called
StartDeleteAll(p) ==
    /\ fop[p].pc \in {"idle", "done"}
    /\ ops_started < MaxOps
    /\ fop' = [fop EXCEPT ![p] =
                 [IdleOp EXCEPT !.kind = "delete_all_files", !.pc = "da_list"]]
    /\ ops_started' = ops_started + 1
    /\ UNCHANGED <<files, db_vector_store_id, _vector_store_id, _indexing_status,
                   vector_stores, storage_files, yandex_counter>>
    /\ UNCHANGED chatVars

\* files = await mongodb.get_all_active_files()
DeleteAllList(p) ==
    /\ fop[p].pc = "da_list"
    /\ fop' = [fop EXCEPT ![p] =
                 [@ EXCEPT !.active = get_all_active_files,
                           !.i = 1,
                           !.pc = IF get_all_active_files = <<>> THEN "da_mark"
                                  ELSE "da_storage"]]
    /\ UNCHANGED <<files, db_vector_store_id, _vector_store_id, _indexing_status,
                   vector_stores, storage_files, yandex_counter, ops_started>>
    /\ UNCHANGED chatVars

\* one file of the loop: delete_file_from_yandex inside try / except: pass
DeleteAllStorage(p) ==
    /\ fop[p].pc = "da_storage"
    /\ LET file == fop[p].active[fop[p].i]
       IN  \/ /\ Truthy(file.yandex_file_id)
              /\ file.yandex_file_id \in storage_files
              /\ storage_files' = delete_file_from_yandex(file.yandex_file_id)
           \/ storage_files' = storage_files
    /\ fop' = [fop EXCEPT ![p] =
                 IF fop[p].i < Len(fop[p].active) THEN [@ EXCEPT !.i = @ + 1]
                 ELSE [@ EXCEPT !.pc = "da_mark"]]
    /\ UNCHANGED <<files, db_vector_store_id, _vector_store_id, _indexing_status,
                   vector_stores, yandex_counter, ops_started>>
    /\ UNCHANGED chatVars

\* deleted_count = await mongodb.delete_all_files()
DeleteAllMark(p) ==
    /\ fop[p].pc = "da_mark"
    /\ files' = mongodb_delete_all_files
    /\ fop' = [fop EXCEPT ![p] =
                 [@ EXCEPT !.deleted_count =
                               Len(SelectSeq(files, LAMBDA f : f.status # "deleted")),
                           !.pc = "rb_read_id"]]
    /\ UNCHANGED <<db_vector_store_id, _vector_store_id, _indexing_status,
                   vector_stores, storage_files, yandex_counter, ops_started>>
    /\ UNCHANGED chatVars

\* routers/files.reindex is called
StartReindex(p) ==
    /\ fop[p].pc \in {"idle", "done"}
    /\ ops_started < MaxOps
    /\ fop' = [fop EXCEPT ![p] = [IdleOp EXCEPT !.kind = "reindex", !.pc = "ri_list"]]
    /\ ops_started' = ops_started + 1
    /\ UNCHANGED <<files, db_vector_store_id, _vector_store_id, _indexing_status,
                   vector_stores, storage_files, yandex_counter>>
    /\ UNCHANGED chatVars

\* reindex: files = await file_service.get_all_files(); without files the answer
\* is "skipped", otherwise start_indexing_task() starts the background rebuild
\* and the answer is "started"
ReindexList(p) ==
    /\ fop[p].pc = "ri_list"
    /\ fop' = [fop EXCEPT ![p] =
                 IF get_all_active_files = <<>>
                 THEN [@ EXCEPT !.result = "skipped", !.pc = "done"]
                 ELSE [@ EXCEPT !.result = "started", !.pc = "bg_list"]]
    /\ UNCHANGED <<files, db_vector_store_id, _vector_store_id, _indexing_status,
                   vector_stores, storage_files, yandex_counter, ops_started>>
    /\ UNCHANGED chatVars

\* rebuild_vector_store_background: files = await mongodb.get_all_active_files();
\* _set_indexing_status(True, "indexing", files_count)
BackgroundList(p) ==
    /\ fop[p].pc = "bg_list"
    /\ _indexing_status' = [is_indexing |-> TRUE, message |-> "indexing",
                            files_count |-> Len(get_all_active_files)]
    /\ fop' = [fop EXCEPT ![p] =
                 [@ EXCEPT !.files_count = Len(get_all_active_files),
                           !.pc = "rb_read_id"]]
    /\ UNCHANGED <<files, db_vector_store_id, _vector_store_id,
                   vector_stores, storage_files, yandex_counter, ops_started>>
    /\ UNCHANGED chatVars

\* _rebuild_vector_store returned or raised: what its caller does next.
\* delete_file and delete_all_files log the exception and return their value;
\* upload_files_with_indexing sets the statuses, or adds the exception to
\* errors; rebuild_vector_store_background sets the indexing status
RebuildReturn(p) ==
    /\ fop[p].pc = "rb_return"
    /\ fop' = [fop EXCEPT ![p] =
                 IF fop[p].kind = "upload_files_with_indexing"
                 THEN IF fop[p].rebuild = "raised"
                      THEN [@ EXCEPT !.errors = Append(@, "indexing"),
                                     !.result = "ok", !.pc = "done"]
                      ELSE [@ EXCEPT !.i = 1, !.pc = "up_ready"]
                 ELSE IF fop[p].kind = "reindex"
                 THEN [@ EXCEPT !.pc = "done"]
                 ELSE [@ EXCEPT !.result = "ok", !.pc = "done"]]
    /\ _indexing_status' =
          IF fop[p].kind # "reindex" THEN _indexing_status
          ELSE IF fop[p].rebuild = "raised"
          THEN [is_indexing |-> FALSE, message |-> "error", files_count |-> 0]
          ELSE [is_indexing |-> FALSE, message |-> "completed",
                files_count |-> fop[p].files_count]
    /\ UNCHANGED <<files, db_vector_store_id, _vector_store_id,
                   vector_stores, storage_files, yandex_counter, ops_started>>
    /\ UNCHANGED chatVars

\* the steps of one task that serves file requests
FileOp(p) ==
    \/ StartUpload(p)
    \/ UploadFile(p)
    \/ UploadSend(p)
    \/ UploadRecord(p)
    \/ UploadReady(p)
    \/ StartDelete(p)
    \/ DeleteFind(p)
    \/ DeleteMark(p)
    \/ DeleteStorage(p)
    \/ StartDeleteAll(p)
    \/ DeleteAllList(p)
    \/ DeleteAllStorage(p)
    \/ DeleteAllMark(p)
    \/ StartReindex(p)
    \/ ReindexList(p)
    \/ BackgroundList(p)
    \/ RebuildReadId(p)
    \/ RebuildReadFiles(p)
    \/ RebuildClearDelete(p)
    \/ RebuildClearPersist(p)
    \/ RebuildClearCache(p)
    \/ RebuildCreate(p)
    \/ RebuildPersist(p)
    \/ RebuildSetCache(p)
    \/ RebuildDeleteOld(p)
    \/ RebuildReturn(p)

\* a deployment without documents: no settings document, nothing in the
\* Knowledge Store
InitIdx ==
    /\ files = <<>>
    /\ db_vector_store_id = None
    /\ _vector_store_id = <<>>
    /\ _indexing_status = [is_indexing |-> FALSE, message |-> "idle", files_count |-> 0]
    /\ vector_stores = {}
    /\ storage_files = {}
    /\ yandex_counter = 0
    /\ fop = [p \in Procs |-> IdleOp]
    /\ ops_started = 0

\* the deployments: everything configured, or one of the three values empty
AllConfigured == [YANDEX_FOLDER_ID |-> TRUE, YANDEX_API_KEY |-> TRUE, SEARCH_INDEX_ID |-> TRUE]
Settings ==
    { AllConfigured,
      [AllConfigured EXCEPT !.YANDEX_FOLDER_ID = FALSE],
      [AllConfigured EXCEPT !.YANDEX_API_KEY = FALSE],
      [AllConfigured EXCEPT !.SEARCH_INDEX_ID = FALSE] }

InitChat ==
    /\ _openai_client = FALSE
    /\ chat_threads = {}
    /\ chat_history = <<>>
    /\ uuid_counter = 0
    /\ turn = [p \in Procs |-> IdleTurn]
    /\ turns_started = 0

\* the steps of one request task
Turn(p, msgs) ==
    \/ Start(p, msgs)
    \/ GetChatThread(p)
    \/ GenerateChatName(p)
    \/ CreateChatThread(p)
    \/ GetHistory(p)
    \/ AddMessageFind(p)
    \/ AddMessageInsert(p)
    \/ AddMessageTouch(p)
    \/ RagPipeline(p)
    \/ Return(p)

(***************************************************************************)
(* Spec: requests served one after another, every deployment and message.  *)
(***************************************************************************)
Init ==
    /\ settings \in Settings
    /\ InitChat
    /\ InitIdx

Next == Turn(1, Messages)

Spec == Init /\ [][Next]_vars

(***************************************************************************)
(* SpecConc: two request tasks interleaved at their awaits.                *)
(***************************************************************************)
InitConc ==
    /\ settings = AllConfigured
    /\ InitChat
    /\ InitIdx

NextConc == \E p \in Procs : Turn(p, ConcMessages)

SpecConc == InitConc /\ [][NextConc]_vars

(***************************************************************************)
(* SpecHist: requests served one after another in a deployment whose store  *)
(* holds a thread that has already had PriorTurns turns.                    *)
(***************************************************************************)
\* the documents PriorTurns turns of user 1 left in chat_history
PriorHistory ==
    [i \in 1..(2 * PriorTurns) |->
        IF i % 2 = 1
        THEN [user_id |-> 1, thread_id |-> ThreadId(1), message_id |-> i,
              role |-> "user", content |-> <<1087, 1086, 1082, 1072>>, meta |-> {}]
        ELSE [user_id |-> 1, thread_id |-> ThreadId(1), message_id |-> i,
              role |-> "assistant", content |-> FarewellAnswer,
              meta |-> {<<"chunks_used", 0>>}]]

InitHist ==
    /\ settings = AllConfigured
    /\ _openai_client = FALSE
    /\ chat_threads = {[thread_id |-> ThreadId(1), user_id |-> 1,
                        chat_name |-> <<1063, 1072, 1090, 58, 32, 1087, 1086, 1082, 1072>>,
                        updated_at |-> 2 * PriorTurns]}
    /\ chat_history = SubSeq(PriorHistory, 1, 2 * PriorTurns)
    /\ uuid_counter = 1
    /\ turn = [p \in Procs |-> IdleTurn]
    /\ turns_started = 0
    /\ InitIdx

NextHist == Turn(1, ConcMessages)

SpecHist == InitHist /\ [][NextHist]_vars

(***************************************************************************)
(* SpecFail: requests served one after another in a deployment whose store  *)
(* holds a thread that has had one turn, with a database that can fail     *)
(* under add_message.                                                      *)
(***************************************************************************)
InitFail ==
    /\ settings = AllConfigured
    /\ _openai_client = FALSE
    /\ chat_threads = {[thread_id |-> ThreadId(1), user_id |-> 1,
                        chat_name |-> <<1063, 1072, 1090, 58, 32, 1087, 1086, 1082, 1072>>,
                        updated_at |-> 2]}
    /\ chat_history = SubSeq(PriorHistory, 1, 2)
    /\ uuid_counter = 1
    /\ turn = [p \in Procs |-> IdleTurn]
    /\ turns_started = 0
    /\ InitIdx

NextFail ==
    \/ Turn(1, ConcMessages)
    \/ AddMessageFindRaises(1)
    \/ AddMessageInsertRaises(1)
    \/ AddMessageTouchRaises(1)

SpecFail == InitFail /\ [][NextFail]_vars

(***************************************************************************)
(* SpecDel: a task serving chat requests and a task serving delete          *)
(* requests, interleaved at their awaits, on a store that holds a thread.   *)
(***************************************************************************)
NextDel ==
    \/ Turn(1, ConcMessages)
    \/ StartDeleteChat(2)
    \/ DeleteChatMessages(2)
    \/ DeleteChatThread(2)
    \/ DeleteChatReturn(2)

SpecDel == InitFail /\ [][NextDel]_vars

(***************************************************************************)
(* SpecIdx: file requests served one after another.                        *)
(***************************************************************************)
InitIdxOnly ==
    /\ settings = AllConfigured
    /\ InitChat
    /\ InitIdx

NextIdx == FileOp(1)

SpecIdx == InitIdxOnly /\ [][NextIdx]_vars

(***************************************************************************)
(* SpecFull: uploads into a registry that already holds as many active     *)
(* documents as one rebuild reads.                                         *)
(***************************************************************************)
\* the documents earlier uploads with indexing left in the registry
PriorFiles ==
    [i \in 1..ActiveFilesReadLimit |->
        [file_id |-> i, filename |-> <<97, 46, 80, 68, 70>>, file_size |-> 1024,
         yandex_file_id |-> FileObject(i), status |-> "ready"]]

InitFull ==
    /\ settings = AllConfigured
    /\ InitChat
    /\ files = SubSeq(PriorFiles, 1, ActiveFilesReadLimit)
    /\ db_vector_store_id = VectorStore(ActiveFilesReadLimit + 1)
    /\ _vector_store_id = VectorStore(ActiveFilesReadLimit + 1)
    /\ _indexing_status = [is_indexing |-> FALSE, message |-> "idle", files_count |-> 0]
    /\ vector_stores = {[id |-> VectorStore(ActiveFilesReadLimit + 1),
                         file_ids |-> {FileObject(i) : i \in 1..ActiveFilesReadLimit}]}
    /\ storage_files = {FileObject(i) : i \in 1..ActiveFilesReadLimit}
    /\ yandex_counter = ActiveFilesReadLimit + 1
    /\ fop = [p \in Procs |-> IdleOp]
    /\ ops_started = 0

NextFull ==
    \/ StartUpload(1)
    \/ UploadFile(1)
    \/ UploadSend(1)
    \/ UploadRecord(1)
    \/ UploadReady(1)
    \/ RebuildReadId(1)
    \/ RebuildReadFiles(1)
    \/ RebuildCreate(1)
    \/ RebuildPersist(1)
    \/ RebuildSetCache(1)
    \/ RebuildDeleteOld(1)
    \/ RebuildReturn(1)

SpecFull == InitFull /\ [][NextFull]_vars

(***************************************************************************)
(* SpecSocial: one request, on a message built around a vocabulary entry.  *)
(***************************************************************************)
\* the entries of the three vocabularies, and two of them as a client may
\* capitalise them
SocialWords ==
    GREETINGS \cup FAREWELLS \cup THANKS \cup
    { <<1055, 1088, 1080, 1074, 1077, 1090>>,   \* "Привет"
      <<72, 73>> }   \* "HI"

\* what precedes the entry: nothing, or blanks
SocialBefore == { <<>>, <<32, 10>> }

\* what follows the entry: nothing, blanks, a punctuation mark, one more word,
\* five more words
SocialAfter ==
    { <<>>,
      <<9, 32>>,
      <<33>>,
      <<32, 1076, 1088, 1091, 1075>>,   \* " друг"
      <<32, 97, 32, 98, 32, 99, 32, 100, 32, 101>> }   \* " a b c d e"

SocialMessages ==
    {b \o w \o a : b \in SocialBefore, w \in SocialWords, a \in SocialAfter}

\* the store holds a thread that has had one turn
InitSocial == InitFail

\* process_message up to the answer of the pipeline and the assistant message
NextSocial ==
    \/ Start(1, SocialMessages)
    \/ GetChatThread(1)
    \/ GenerateChatName(1)
    \/ CreateChatThread(1)
    \/ GetHistory(1)
    \/ AddMessageFind(1)
    \/ AddMessageInsert(1)
    \/ AddMessageTouch(1)
    \/ RagPipeline(1)

SpecSocial == InitSocial /\ [][NextSocial]_vars

(***************************************************************************)
(* yandex_service, incremental variant: upload_file_to_index and           *)
(* delete_file_from_index work on the one index that SEARCH_INDEX_ID names. *)
(* Each call on the client is one step; a call succeeds or raises.         *)
(***************************************************************************)
\* the vector store settings.SEARCH_INDEX_ID names
FixedIndex == VectorStore(0)

\* the file ids registered in the fixed index
FixedIndexFiles == UNION {v.file_ids : v \in {w \in vector_stores : w.id = FixedIndex}}

\* client.vector_stores.files.create / delete on the fixed index
WithIndexFiles(file_ids) ==
    {IF v.id = FixedIndex THEN [v EXCEPT !.file_ids = file_ids] ELSE v : v \in vector_stores}

\* _upload_file_and_add_to_index_sync is called: get_openai_client(), then
\* RuntimeError when SEARCH_INDEX_ID is not configured
StartUploadToIndex(p) ==
    /\ fop[p].pc \in {"idle", "done"}
    /\ ops_started < MaxOps
    /\ ~get_openai_client(_openai_client).raised
    /\ _openai_client' = get_openai_client(_openai_client).client
    /\ fop' = [fop EXCEPT ![p] =
                 IF ~settings.SEARCH_INDEX_ID
                 THEN [IdleOp EXCEPT !.kind = "upload_file_to_index",
                                     !.result = "raised", !.pc = "done"]
                 ELSE [IdleOp EXCEPT !.kind = "upload_file_to_index",
                                     !.pc = "ix_upload"]]
    /\ ops_started' = ops_started + 1
    /\ UNCHANGED <<files, db_vector_store_id, _vector_store_id, _indexing_status,
                   vector_stores, storage_files, yandex_counter>>
    /\ UNCHANGED <<settings, chat_threads, chat_history, uuid_counter, turn, turns_started>>

\* uploaded_file = client.files.create(...); file_id = uploaded_file.id
IndexUploadFile(p) ==
    /\ fop[p].pc = "ix_upload"
    /\ LET file_id == FileObject(yandex_counter + 1)
       IN  \/ /\ storage_files' = storage_files \cup {file_id}
              /\ yandex_counter' = yandex_counter + 1
              /\ fop' = [fop EXCEPT ![p] =
                           [@ EXCEPT !.yandex_file_id = file_id,
                                     !.calls = Append(@, IndexCall("files.create", file_id, TRUE)),
                                     !.pc = "ix_register"]]
           \/ /\ UNCHANGED <<storage_files, yandex_counter>>
              /\ fop' = [fop EXCEPT ![p] =
                           [@ EXCEPT !.calls = Append(@, IndexCall("files.create", None, FALSE)),
                                     !.result = "raised", !.pc = "done"]]
    /\ UNCHANGED <<files, db_vector_store_id, _vector_store_id, _indexing_status,
                   vector_stores, ops_started>>
    /\ UNCHANGED chatVars

\* _upload_file_and_add_to_index_sync returning the file id although
\* client.vector_stores.files.create raised
IndexRegisterSwallowing(p) ==
    /\ fop[p].pc = "ix_register"
    /\ LET file_id == fop[p].yandex_file_id
       IN  \/ /\ vector_stores' = WithIndexFiles(FixedIndexFiles \cup {file_id})
              /\ fop' = [fop EXCEPT ![p] =
                           [@ EXCEPT !.calls = Append(@, IndexCall("vector_stores.files.create", file_id, TRUE)),
                                     !.result = "returned", !.pc = "done"]]
           \/ /\ vector_stores' = vector_stores
              /\ fop' = [fop EXCEPT ![p] =
                           [@ EXCEPT !.calls = Append(@, IndexCall("vector_stores.files.create", file_id, FALSE)),
                                     !.result = "returned", !.pc = "done"]]
    /\ UNCHANGED <<files, db_vector_store_id, _vector_store_id, _indexing_status,
                   storage_files, yandex_counter, ops_started>>
    /\ UNCHANGED chatVars

\* client.vector_stores.files.create(vector_store_id=index_id, file_id=file_id);
\* return file_id
IndexRegister(p) ==
    /\ fop[p].pc = "ix_register"
    /\ LET file_id == fop[p].yandex_file_id
       IN  \/ /\ vector_stores' = WithIndexFiles(FixedIndexFiles \cup {file_id})
              /\ fop' = [fop EXCEPT ![p] =
                           [@ EXCEPT !.calls = Append(@, IndexCall("vector_stores.files.create", file_id, TRUE)),
                                     !.result = "returned", !.pc = "done"]]
           \/ /\ vector_stores' = vector_stores
              /\ fop' = [fop EXCEPT ![p] =
                           [@ EXCEPT !.calls = Append(@, IndexCall("vector_stores.files.create", file_id, FALSE)),
                                     !.result = "raised", !.pc = "done"]]
    /\ UNCHANGED <<files, db_vector_store_id, _vector_store_id, _indexing_status,
                   storage_files, yandex_counter, ops_started>>
    /\ UNCHANGED chatVars

\* _delete_file_from_index_sync(file_id) is called, for a file id of the
\* storage or another: get_openai_client(), then the test of SEARCH_INDEX_ID
StartDeleteFromIndex(p) ==
    /\ fop[p].pc \in {"idle", "done"}
    /\ ops_started < MaxOps
    /\ ~get_openai_client(_openai_client).raised
    /\ _openai_client' = get_openai_client(_openai_client).client
    /\ \E file_id \in storage_files \cup FixedIndexFiles \cup {FileObject(0)} :
          fop' = [fop EXCEPT ![p] =
                    [IdleOp EXCEPT !.kind = "delete_file_from_index",
                                   !.yandex_file_id = file_id,
                                   !.pc = IF ~settings.SEARCH_INDEX_ID THEN "ix_delete_file"
                                          ELSE "ix_remove_entry"]]
    /\ ops_started' = ops_started + 1
    /\ UNCHANGED <<files, db_vector_store_id, _vector_store_id, _indexing_status,
                   vector_stores, storage_files, yandex_counter>>
    /\ UNCHANGED <<settings, chat_threads, chat_history, uuid_counter, turn, turns_started>>

\* try: client.vector_stores.files.delete(file_id, vector_store_id=index_id)
\* except Exception: logged, and the function goes on
IndexRemoveEntry(p) ==
    /\ fop[p].pc = "ix_remove_entry"
    /\ LET file_id == fop[p].yandex_file_id
       IN  \/ /\ file_id \in FixedIndexFiles
              /\ vector_stores' = WithIndexFiles(FixedIndexFiles \ {file_id})
              /\ fop' = [fop EXCEPT ![p] =
                           [@ EXCEPT !.calls = Append(@, IndexCall("vector_stores.files.delete", file_id, TRUE)),
                                     !.pc = "ix_delete_file"]]
           \/ /\ vector_stores' = vector_stores
              /\ fop' = [fop EXCEPT ![p] =
                           [@ EXCEPT !.calls = Append(@, IndexCall("vector_stores.files.delete", file_id, FALSE)),
                                     !.pc = "ix_delete_file"]]
    /\ UNCHANGED <<files, db_vector_store_id, _vector_store_id, _indexing_status,
                   storage_files, yandex_counter, ops_started>>
    /\ UNCHANGED chatVars

\* try: client.files.delete(file_id); return True
\* except Exception: return False
IndexDeleteFile(p) ==
    /\ fop[p].pc = "ix_delete_file"
    /\ LET file_id == fop[p].yandex_file_id
       IN  \/ /\ file_id \in storage_files
              /\ storage_files' = storage_files \ {file_id}
              /\ fop' = [fop EXCEPT ![p] =
                           [@ EXCEPT !.calls = Append(@, IndexCall("files.delete", file_id, TRUE)),
                                     !.result = "True", !.pc = "done"]]
           \/ /\ storage_files' = storage_files
              /\ fop' = [fop EXCEPT ![p] =
                           [@ EXCEPT !.calls = Append(@, IndexCall("files.delete", file_id, FALSE)),
                                     !.result = "False", !.pc = "done"]]
    /\ UNCHANGED <<files, db_vector_store_id, _vector_store_id, _indexing_status,
                   vector_stores, yandex_counter, ops_started>>
    /\ UNCHANGED chatVars

(***************************************************************************)
(* SpecInc: incremental adds and removes served one after another, in a    *)
(* deployment with the fixed index configured or not.                      *)
(***************************************************************************)
InitInc ==
    /\ settings \in {AllConfigured, [AllConfigured EXCEPT !.SEARCH_INDEX_ID = FALSE]}
    /\ InitChat
    /\ files = <<>>
    /\ db_vector_store_id = None
    /\ _vector_store_id = <<>>
    /\ _indexing_status = [is_indexing |-> FALSE, message |-> "idle", files_count |-> 0]
    /\ vector_stores = IF settings.SEARCH_INDEX_ID
                       THEN {[id |-> FixedIndex, file_ids |-> {}]} ELSE {}
    /\ storage_files = {}
    /\ yandex_counter = 0
    /\ fop = [p \in Procs |-> IdleOp]
    /\ ops_started = 0

NextInc ==
    \/ StartUploadToIndex(1)
    \/ IndexUploadFile(1)
    \/ IndexRegister(1)
    \/ StartDeleteFromIndex(1)
    \/ IndexRemoveEntry(1)
    \/ IndexDeleteFile(1)

SpecInc == InitInc /\ [][NextInc]_vars

(***************************************************************************)
(* SpecIdxConc: two tasks, each serving one file request, interleaved at   *)
(* their awaits, in a deployment that holds two indexed documents.         *)
(***************************************************************************)
\* the registry after upload_files_with_indexing of two documents
IndexedFiles ==
    [i \in 1..2 |->
        [file_id |-> i, filename |-> <<97, 46, 80, 68, 70>>, file_size |-> 1024,
         yandex_file_id |-> FileObject(i), status |-> "ready"]]

InitIdxConc ==
    /\ settings = AllConfigured
    /\ InitChat
    /\ files = SubSeq(IndexedFiles, 1, 2)
    /\ db_vector_store_id = VectorStore(3)
    /\ _vector_store_id = VectorStore(3)
    /\ _indexing_status = [is_indexing |-> FALSE, message |-> "idle", files_count |-> 0]
    /\ vector_stores = {[id |-> VectorStore(3),
                         file_ids |-> {FileObject(1), FileObject(2)}]}
    /\ storage_files = {FileObject(1), FileObject(2)}
    /\ yandex_counter = 3
    /\ fop = [p \in Procs |-> IdleOp]
    /\ ops_started = 0

\* "if old_vector_store_id and ...: await yandex_service.delete_vector_store(old)"
\* when another rebuild has already deleted that store: the call finds nothing
\* to delete and returns (its other outcome, raising, is in RebuildDeleteOld)
RebuildDeleteOldGone(p) ==
    /\ fop[p].pc = "rb_delete_old"
    /\ LET old == fop[p].old_vector_store_id
       IN  /\ ~ \E v \in vector_stores : v.id = old
           /\ fop' = [fop EXCEPT ![p] =
                        [@ EXCEPT !.calls = Append(@, IndexCall("delete_vector_store", old, TRUE)),
                                  !.rebuild = "returned",
                                  !.pc = "rb_return"]]
    /\ UNCHANGED <<files, db_vector_store_id, _vector_store_id, _indexing_status,
                   vector_stores, storage_files, yandex_counter, ops_started>>
    /\ UNCHANGED chatVars

\* no files: "if old_vector_store_id: await yandex_service.delete_vector_store(old)"
\* when another rebuild has already deleted that store and the call returns
RebuildClearDeleteGone(p) ==
    /\ fop[p].pc = "rb_clear_delete"
    /\ LET old == fop[p].old_vector_store_id
       IN  /\ ~ \E v \in vector_stores : v.id = old
           /\ fop' = [fop EXCEPT ![p] =
                        [@ EXCEPT !.calls = Append(@, IndexCall("delete_vector_store", old, TRUE)),
                                  !.pc = "rb_clear_persist"]]
    /\ UNCHANGED <<files, db_vector_store_id, _vector_store_id, _indexing_status,
                   vector_stores, storage_files, yandex_counter, ops_started>>
    /\ UNCHANGED chatVars

\* upload_files_with_indexing is called with one document
StartUploadOne(p) ==
    /\ fop[p].pc = "idle"
    /\ StartUpload(p)
    /\ fop'[p].kind = "upload_files_with_indexing"
    /\ fop'[p].batch = <<UploadDocument>>

\* delete_file is called for a document of the registry
StartDeleteKnown(p) ==
    /\ fop[p].pc = "idle"
    /\ StartDelete(p)
    /\ fop'[p].file_id >= 1

StartDeleteAllOnce(p) == fop[p].pc = "idle" /\ StartDeleteAll(p)

StartReindexOnce(p) == fop[p].pc = "idle" /\ StartReindex(p)

\* the steps of a task that serves one file request
ConcFileOp(p) ==
    \/ StartUploadOne(p)
    \/ UploadFile(p)
    \/ UploadSend(p)
    \/ UploadRecord(p)
    \/ UploadReady(p)
    \/ StartDeleteKnown(p)
    \/ DeleteFind(p)
    \/ DeleteMark(p)
    \/ DeleteStorage(p)
    \/ StartDeleteAllOnce(p)
    \/ DeleteAllList(p)
    \/ DeleteAllStorage(p)
    \/ DeleteAllMark(p)
    \/ StartReindexOnce(p)
    \/ ReindexList(p)
    \/ BackgroundList(p)
    \/ RebuildReadId(p)
    \/ RebuildReadFiles(p)
    \/ RebuildClearDelete(p)
    \/ RebuildClearPersist(p)
    \/ RebuildClearCache(p)
    \/ RebuildCreate(p)
    \/ RebuildPersist(p)
    \/ RebuildSetCache(p)
    \/ RebuildDeleteOld(p)
    \/ RebuildDeleteOldGone(p)
    \/ RebuildClearDeleteGone(p)
    \/ RebuildReturn(p)

NextIdxConc == \E p \in Procs : ConcFileOp(p)

SpecIdxConc == InitIdxConc /\ [][NextIdxConc]_vars

(***************************************************************************)
(* Claims about the RAG pipeline                                           *)
(***************************************************************************)
\* the backend calls the pipeline of task p made (the chat-name call is not one)
PipelineCalls(p) == SelectSeq(turn[p].calls, LAMBDA c : c.op # "chat_name")
CallsOf(p, op) == SelectSeq(turn[p].calls, LAMBDA c : c.op = op)

IsSocial(text) == is_greeting(text) \/ is_farewell(text) \/ is_thanks(text)

\* C1: when the pipeline ran on a message that is a greeting, a farewell or
\* thanks, it returned the canned answer of that sub-case and made no search,
\* no relevance and no generation call.
C1_SocialNoCalls ==
    \A p \in Procs :
        (turn[p].rag # "none" /\ IsSocial(turn[p].message)) =>
            /\ turn[p].rag = "returned"
            /\ PipelineCalls(p) = <<>>
            /\ turn[p].chunks = <<>>
            /\ is_greeting(turn[p].message) => turn[p].answer = GreetingAnswer
            /\ is_farewell(turn[p].message) => turn[p].answer = FarewellAnswer
            /\ is_thanks(turn[p].message) => turn[p].answer = ThanksAnswer

C1_Witness ==
    \E p \in Procs :
        /\ turn[p].rag = "returned"
        /\ is_thanks(turn[p].message)
        /\ turn[p].answer = ThanksAnswer
        /\ turn[p].pc = "done"

\* C2: when the pipeline ran on a direct-task message (not social, a task
\* keyword in its first 100 characters), it made exactly one backend call, a
\* generation call with an empty context (the system text ends with the empty
\* marker), no search and no relevance call, and a returned result reports no
\* chunks.
C2_DirectTaskNoRetrieval ==
    \A p \in Procs :
        (turn[p].rag # "none" /\ ~IsSocial(turn[p].message)
            /\ _is_direct_task(turn[p].message)) =>
            /\ Len(PipelineCalls(p)) = 1
            /\ PipelineCalls(p)[1].op = "generate"
            /\ PipelineCalls(p)[1].text = <<>>
            /\ PipelineCalls(p)[1].messages[1] =
                    [role |-> "system", text |-> SYSTEM_PROMPT \o EmptyMarker]
            /\ turn[p].chunks = <<>>

C2_Witness ==
    \E p \in Procs :
        /\ turn[p].rag = "returned"
        /\ _is_direct_task(turn[p].message)
        /\ Len(CallsOf(p, "generate")) = 1
        /\ turn[p].answer = AnswerText
        /\ turn[p].pc = "done"

\* a knowledge-seeking message: neither social nor a direct task
IsKnowledgeSeeking(text) == ~IsSocial(text) /\ ~_is_direct_task(text)

\* C9: when the pipeline ran on a knowledge-seeking message, retrieval never
\* failed the turn: whatever the search backend and the configuration did, the
\* pipeline went on to call answer generation; and when retrieval found
\* nothing, generation got an empty context.
C9_RetrievalNeverFailsTurn ==
    \A p \in Procs :
        (turn[p].rag # "none" /\ IsKnowledgeSeeking(turn[p].message)) =>
            /\ Len(CallsOf(p, "generate")) = 1
            /\ (CallsOf(p, "relevance") = <<>>) => CallsOf(p, "generate")[1].text = <<>>

\* C10: when the relevance check itself failed (the request raised, the status
\* was not 200, or the body could not be parsed), the next call is the
\* generation call, its context is all the retrieved chunks joined in
\* retrieval order, and a returned result reports all of them.
Retrieved(p) == Take(Hits(CallsOf(p, "search")[1].out.n), SearchMaxResults)

C10_RelevanceFailOpen ==
    \A p \in Procs :
        \A i \in 1..Len(turn[p].calls) :
            (turn[p].calls[i].op = "relevance" /\ turn[p].calls[i].out.kind # "ok") =>
                /\ i < Len(turn[p].calls)
                /\ turn[p].calls[i + 1].op = "generate"
                /\ turn[p].calls[i + 1].text = Join(ChunkSeparator, Retrieved(p))
                /\ turn[p].rag = "returned" => turn[p].chunks = Retrieved(p)

C10_Witness ==
    \E p \in Procs :
        /\ turn[p].pc = "done"
        /\ Len(CallsOf(p, "relevance")) = 1
        /\ CallsOf(p, "relevance")[1].out.kind = "bad_json"
        /\ Len(turn[p].chunks) = SearchMaxResults

(***************************************************************************)
(* Claims about the conversation store                                     *)
(***************************************************************************)
\* C3: in every reachable state, no two messages of one thread share a
\* message_id, also when two turns run concurrently on the thread.
C3_UniqueMessageIds ==
    \A i, j \in 1..Len(chat_history) :
        (i # j /\ chat_history[i].thread_id = chat_history[j].thread_id) =>
            chat_history[i].message_id # chat_history[j].message_id

\* C4: with appends issued one after another, the Nth message appended to a
\* thread has message_id N, and reading the thread's history returns all the
\* appended messages, in the order of their message_id.
C4_SequentialRoundTrip ==
    \A t \in chat_threads :
        LET appended == ThreadMessages(t.thread_id)
        IN  /\ \A n \in 1..Len(appended) : appended[n].message_id = n
            /\ get_chat_history(t.thread_id) = appended
(***************************************************************************)
(* Claims about the vector store lifecycle                                 *)
(***************************************************************************)
\* the calls of task p's rebuild with that name
RebuildCalls(p, op) == SelectSeq(fop[p].calls, LAMBDA c : c.op = op)

\* C5: in a rebuild that found active documents, the calls come in the order
\* create (from the backing ids read), persist the new id, delete the previous
\* store: a persist is the second call and follows a successful create, and a
\* delete is the third call, follows that persist, and names the previous id
\* while the pointer names the new one.
C5_CreatePersistDelete ==
    \A p \in Procs :
        LET calls == fop[p].calls
        IN  (fop[p].yandex_file_ids # <<>>) =>
                \A k \in 1..Len(calls) :
                    /\ calls[k].op = "create_vector_store" =>
                            k = 1 /\ calls[k].arg = fop[p].yandex_file_ids
                    /\ calls[k].op = "set_current_vector_store_id" =>
                            /\ k = 2
                            /\ calls[1].op = "create_vector_store" /\ calls[1].ok
                            /\ calls[k].arg = fop[p].new_vector_store_id
                            /\ \E v \in vector_stores : v.id = calls[k].arg
                    /\ calls[k].op = "delete_vector_store" =>
                            /\ k = 3
                            /\ calls[2].op = "set_current_vector_store_id"
                            /\ calls[k].arg = fop[p].old_vector_store_id
                            /\ calls[k].arg # fop[p].new_vector_store_id
                            /\ db_vector_store_id = fop[p].new_vector_store_id

C5_Witness ==
    \E p \in Procs :
        /\ fop[p].pc = "rb_return"
        /\ fop[p].rebuild = "returned"
        /\ Len(fop[p].yandex_file_ids) = 2
        /\ Len(fop[p].calls) = 3
        /\ fop[p].calls[3].op = "delete_vector_store" /\ fop[p].calls[3].ok

\* the backing ids of the documents that are not deleted
ActiveBackingIds ==
    {files[i].yandex_file_id : i \in {j \in 1..Len(files) :
        files[j].status # "deleted" /\ Truthy(files[j].yandex_file_id)}}

\* the bound id names a store built from exactly the active backing ids, or is
\* empty or unset when there are none
BoundIndexMatchesActive ==
    IF ActiveBackingIds = {} THEN ~Truthy(db_vector_store_id)
    ELSE \E v \in vector_stores :
            v.id = db_vector_store_id /\ v.file_ids = ActiveBackingIds

C7_FailedCreateKeepsOldIndex ==
    \A p \in Procs :
        (fop[p].rebuild = "raised" /\ RebuildCalls(p, "create_vector_store") # <<>>
            /\ ~RebuildCalls(p, "create_vector_store")[1].ok) =>
            /\ Len(fop[p].calls) = 1
            /\ db_vector_store_id = fop[p].old_vector_store_id
            /\ Truthy(fop[p].old_vector_store_id) =>
                  \E v \in vector_stores : v.id = fop[p].old_vector_store_id

C7_Witness ==
    \E p \in Procs :
        /\ fop[p].pc = "done"
        /\ fop[p].rebuild = "raised"
        /\ fop[p].calls = <<IndexCall("create_vector_store", fop[p].yandex_file_ids, FALSE)>>
        /\ Truthy(db_vector_store_id)
        /\ \E v \in vector_stores : v.id = db_vector_store_id

\* C8: when the rebuild started by delete_file, delete_all_files or
\* upload_files_with_indexing raised, the operation does not report success:
\* it ends with an error, or at least with an indexing entry in its errors.
C8_RebuildFailureReported ==
    \A p \in Procs :
        (fop[p].pc = "done" /\ fop[p].rebuild = "raised"
            /\ fop[p].kind \in {"delete_file", "delete_all_files",
                                "upload_files_with_indexing"}) =>
            \/ fop[p].result # "ok"
            \/ \E k \in 1..Len(fop[p].errors) : fop[p].errors[k] = "indexing"

(***************************************************************************)
(* Claims about a whole turn                                               *)
(***************************************************************************)
\* C11: after a relevance check, the next call is the generation call; when
\* the check returned a negative verdict its context is empty, a returned
\* result reports no chunks and the assistant message records chunks_used 0;
\* when it returned an affirmative verdict the context is all the retrieved
\* chunks joined in retrieval order, the result reports all of them and the
\* assistant message records their number.
C11_VerdictDecidesContext ==
    \A p \in Procs :
        \A i \in 1..Len(turn[p].calls) :
            turn[p].calls[i].op = "relevance" =>
                LET verdict == _check_relevance_sync(turn[p].message, Retrieved(p),
                                                     turn[p].calls[i].out).result
                    passages == IF verdict THEN Retrieved(p) ELSE <<>>
                IN  /\ i < Len(turn[p].calls)
                    /\ turn[p].calls[i + 1].op = "generate"
                    /\ turn[p].calls[i + 1].text = Join(ChunkSeparator, passages)
                    /\ verdict => Len(passages) >= 1
                    /\ turn[p].rag = "returned" => turn[p].chunks = passages
                    /\ turn[p].pc \in {"asst_touch", "done"} =>
                          chat_history[Len(chat_history)].meta =
                              {<<"chunks_used", Len(passages)>>}

C11_Witness ==
    \E p \in Procs :
        /\ turn[p].pc = "done"
        /\ Len(CallsOf(p, "relevance")) = 1
        /\ CallsOf(p, "relevance")[1].out.text = <<1053, 1045, 1058>>
        /\ CallsOf(p, "search")[1].out.n = MaxSearchHits
        /\ CallsOf(p, "generate")[1].text = <<>>
        /\ turn[p].chunks = <<>>
        /\ chat_history[Len(chat_history)].meta = {<<"chunks_used", 0>>}

\* a failed turn of task p left its user message as the last of the thread
UserMessageIsLast(p) ==
    LET ms == ThreadMessages(turn[p].thread_id)
    IN  /\ ms # <<>>
        /\ ms[Len(ms)].role = "user"
        /\ ms[Len(ms)].content = turn[p].message
        /\ ms[Len(ms)].message_id = LastMessageId(turn[p].thread_id)

\* C12: when a turn fails after its user message was stored (generation
\* failed, or storing the assistant message failed), the user message is in
\* the thread, no assistant message of that turn is, and the caller gets a
\* failure.
C12_FailedTurnKeepsOnlyUserMessage ==
    \A p \in Procs :
        (turn[p].pc = "failed" /\ turn[p].rag # "none") =>
            /\ UserMessageIsLast(p)
            /\ main_thread(p).status_code = 500

\* C13: a turn that failed after storing its user message and is sent again
\* with the same thread identifier and message does not store the message a
\* second time: no thread holds the same user message twice in a row, the
\* first unanswered and the second answered.
C13_RetryAppendsOnce ==
    \A t \in chat_threads :
        LET ms == SortByMessageId(ThreadMessages(t.thread_id))
        IN  \A i \in 1..(Len(ms) - 2) :
                ~ /\ ms[i].role = "user"
                  /\ ms[i + 1].role = "user"
                  /\ ms[i + 1].content = ms[i].content
                  /\ ms[i + 2].role = "assistant"

\* C14: when the pipeline returned an answer and storing the assistant
\* message failed, what the caller gets carries both the error and the
\* answer text.
C14_AnswerSurvivesFailedWrite ==
    \A p \in Procs :
        (turn[p].pc = "failed" /\ turn[p].rag = "returned") =>
            /\ main_thread(p).status_code # 200
            /\ "message" \in DOMAIN main_thread(p)
            /\ main_thread(p).message = turn[p].answer

\* what identifies the threads of the store: everything but updated_at
ThreadIdentities(threads) ==
    {[thread_id |-> t.thread_id, user_id |-> t.user_id, chat_name |-> t.chat_name] :
        t \in threads}

\* task p is processing a message sent with the identifier of a thread that
\* is in the store
OnExistingThread(p) ==
    /\ turn[p].pc \notin {"idle", "generate_chat_name", "create_chat_thread"}
    /\ ~turn[p].new_chat_created
    /\ turn[p].pc = "get_chat_thread" => get_chat_thread(turn[p].thread_id) # {}

\* C15: no step of a turn on an existing thread creates a thread, hands out a
\* thread identifier or changes the name or the owner of a thread; such a step
\* changes at most the updated_at of threads with that identifier and appends
\* at most one message, of that thread, to the message log.
C15_ExistingThreadKeepsIdentity ==
    [][\A p \in Procs :
          (OnExistingThread(p) /\ turn'[p] # turn[p]) =>
              /\ ThreadIdentities(chat_threads') = ThreadIdentities(chat_threads)
              /\ Cardinality(chat_threads') = Cardinality(chat_threads)
              /\ uuid_counter' = uuid_counter
              /\ \A t \in chat_threads :
                    t.thread_id # turn[p].thread_id => t \in chat_threads'
              /\ \/ chat_history' = chat_history
                 \/ /\ Len(chat_history') = Len(chat_history) + 1
                    /\ SubSeq(chat_history', 1, Len(chat_history)) = chat_history
                    /\ chat_history'[Len(chat_history')].thread_id = turn[p].thread_id
      ]_vars

C15_Witness ==
    \E p \in Procs :
        /\ turn[p].pc = "done"
        /\ OnExistingThread(p)
        /\ turn[p].thread_id = ThreadId(1)
        /\ Len(ThreadMessages(ThreadId(1))) = 6
        /\ chat_threads = {[thread_id |-> ThreadId(1), user_id |-> 1,
                            chat_name |-> <<1063, 1072, 1090, 58, 32, 1087, 1086, 1082, 1072>>,
                            updated_at |-> 6]}

\* the identifiers of the threads in the store
ThreadIds == {t.thread_id : t \in chat_threads}

\* C16: once a turn has resolved its thread, new_chat_created is true exactly
\* when the request had no thread identifier or one the store did not hold;
\* in those cases the turn's thread has a newly generated identifier, differs
\* from the supplied one and is in the store once; otherwise the turn's
\* thread is the supplied one; and the thread_id that is returned names a
\* thread in the store.
C16_NewThreadExactlyWhenUnknown ==
    \A p \in Procs :
        turn[p].pc \in {"get_history", "user_find", "user_insert", "user_touch",
                        "rag_pipeline", "asst_find", "asst_insert", "asst_touch",
                        "done", "failed"} =>
            LET supplied == turn[p].request_thread_id
                known == supplied # NoThread /\ supplied \in ThreadIds
            IN  /\ turn[p].new_chat_created <=> ~known
                /\ turn[p].new_chat_created =>
                      /\ turn[p].thread_id = ThreadId(uuid_counter)
                      /\ turn[p].thread_id # supplied
                      /\ Cardinality({t \in chat_threads :
                                          t.thread_id = turn[p].thread_id}) = 1
                      /\ Cardinality(chat_threads) = uuid_counter
                /\ ~turn[p].new_chat_created => turn[p].thread_id = supplied
                /\ turn[p].pc = "done" =>
                      /\ main_thread(p).thread_id \in ThreadIds
                      /\ main_thread(p).new_chat_created = ~known

C16_Witness ==
    \E p \in Procs :
        /\ turn[p].pc = "done"
        /\ turn[p].request_thread_id = UnknownThread
        /\ turn[p].new_chat_created
        /\ turn[p].thread_id = ThreadId(2)
        /\ ThreadIds = {ThreadId(1), ThreadId(2)}

\* C17: when a turn on an existing thread has succeeded, with no other turn
\* on the thread meanwhile, the thread holds exactly two messages more than
\* when the turn read it: the user message and then the assistant message,
\* numbered consecutively after the last earlier message; and the response
\* says new_chat_created = false.
C17_TurnAddsTwoMessages ==
    \A p \in Procs :
        (turn[p].pc = "done" /\ ~turn[p].new_chat_created) =>
            LET ms == ThreadMessages(turn[p].thread_id)
                n == Len(ms)
                before == Len(turn[p].history)
            IN  /\ n = before + 2
                /\ ms[n - 1].role = "user"
                /\ ms[n - 1].content = turn[p].message
                /\ ms[n].role = "assistant"
                /\ ms[n].content = turn[p].answer
                /\ ms[n].message_id = ms[n - 1].message_id + 1
                /\ before > 0 => ms[n - 1].message_id = ms[before].message_id + 1
                /\ main_thread(p).new_chat_created = FALSE

C17_Witness ==
    \E p \in Procs :
        /\ turn[p].pc = "done"
        /\ ~turn[p].new_chat_created
        /\ Len(turn[p].history) = 2
        /\ Len(ThreadMessages(turn[p].thread_id)) = 4
        /\ ThreadMessages(turn[p].thread_id)[4].message_id = 4
        /\ ThreadMessages(turn[p].thread_id)[4].content = AnswerText

\* C18: when a turn on a social message sent without a thread identifier has
\* succeeded, it created a thread, the thread holds exactly the user message
\* and the assistant message, the answer is the canned one, and the turn
\* made no call at all to the Knowledge Store Client: no search, no
\* completion and no short completion (the chat-name call is one).
C18_SocialFirstMessageNoCalls ==
    \A p \in Procs :
        (turn[p].pc = "done" /\ turn[p].request_thread_id = NoThread
            /\ IsSocial(turn[p].message)) =>
            LET ms == ThreadMessages(turn[p].thread_id)
            IN  /\ turn[p].new_chat_created
                /\ turn[p].thread_id \in ThreadIds
                /\ Len(ms) = 2
                /\ ms[1].role = "user" /\ ms[2].role = "assistant"
                /\ main_thread(p).message = get_greeting_response(turn[p].message)
                /\ turn[p].calls = <<>>

\* C19: in every reachable state every message of the store has the
\* thread_id of a thread of the store, also while and after a
\* delete_chat_thread runs next to a turn on the same thread.
C19_MessagesReferenceThreads ==
    \A i \in 1..Len(chat_history) : chat_history[i].thread_id \in ThreadIds

(***************************************************************************)
(* Claims about uploads                                                    *)
(***************************************************************************)
\* C20: the step that takes an upload request with more than 10 files ends
\* the request at once as rejected, with status 400 from the router; no file
\* of the batch is read, no file is sent to the backing store, no document
\* record is created, and nothing else of the store or the Knowledge Store
\* changes.
C20_OversizedBatchRejected ==
    [][\A p \in Procs :
          (fop'[p] # fop[p] /\ Len(fop'[p].batch) > MAX_FILES_PER_UPLOAD) =>
              /\ fop'[p].pc = "done"
              /\ fop'[p].result = "rejected"
              /\ fop'[p].kind = "upload_files" =>
                    upload_files_status_code(fop'[p]) = 400
              /\ fop'[p].reads = 0
              /\ fop'[p].uploaded_files = <<>>
              /\ fop'[p].errors = <<>>
              /\ UNCHANGED <<files, storage_files, yandex_counter, vector_stores,
                             db_vector_store_id, _vector_store_id>>
      ]_vars

C20_Witness ==
    \E p \in Procs :
        /\ fop[p].pc = "done"
        /\ fop[p].kind = "upload_files"
        /\ Len(fop[p].batch) = MAX_FILES_PER_UPLOAD + 1
        /\ fop[p].result = "rejected"
        /\ fop[p].reads = 0
        /\ Len(files) = 1
        /\ Cardinality(storage_files) = 1

\* the files of the batch of op the loop of upload_files has finished with
FilesFinished(op) ==
    IF op.pc \in {"up_file", "up_send", "up_record"} THEN op.i - 1 ELSE Len(op.batch)

\* C21: every step of the loop of upload_files deals with one file only.  A
\* file of a type that is not allowed, a file above the size limit and a file
\* whose upload to the backing store fails each add exactly one entry to
\* errors and no document record; a file that passes adds exactly one record
\* and no error; in both cases the loop goes on with the next file of the
\* batch, or ends after the last one; and every finished file has either one
\* record or one error.
C21_FilesHandledIndependently ==
    [][\A p \in Procs :
          (fop[p].pc \in {"up_file", "up_send", "up_record"} /\ fop'[p] # fop[p]) =>
              LET o == fop[p]
                  n == fop'[p]
                  file == o.batch[o.i]
                  refused == Len(n.errors) = Len(o.errors) + 1
                  recorded == Len(n.uploaded_files) = Len(o.uploaded_files) + 1
                  finished == refused \/ recorded
              IN  /\ ~is_allowed_file(file.filename) => refused
                  /\ file.size > MAX_FILE_SIZE => refused
                  /\ refused => /\ files' = files
                                /\ n.uploaded_files = o.uploaded_files
                                /\ SubSeq(n.errors, 1, Len(o.errors)) = o.errors
                  /\ recorded => /\ Len(files') = Len(files) + 1
                                 /\ SubSeq(files', 1, Len(files)) = files
                                 /\ files'[Len(files')].filename = file.filename
                                 /\ files'[Len(files')].status = "uploaded"
                                 /\ n.errors = o.errors
                  /\ ~finished => /\ n.i = o.i
                                  /\ n.pc \in {"up_send", "up_record"}
                                  /\ n.errors = o.errors
                                  /\ n.uploaded_files = o.uploaded_files
                                  /\ files' = files
                  /\ (finished /\ o.i < Len(o.batch)) =>
                        (n.pc = "up_file" /\ n.i = o.i + 1)
                  /\ (finished /\ o.i = Len(o.batch)) =>
                        n.pc \in {"done", "rb_read_id"}
                  /\ Len(n.uploaded_files) + Len(n.errors) = FilesFinished(n)
      ]_vars

C21_Witness ==
    \E p \in Procs :
        /\ fop[p].pc = "done"
        /\ fop[p].kind = "upload_files"
        /\ Len(fop[p].batch) = 4
        /\ fop[p].errors = <<"type", "size", "upload">>
        /\ Len(fop[p].uploaded_files) = 1
        /\ Len(files) = 1

(***************************************************************************)
(* Claims about deleting documents                                         *)
(***************************************************************************)
\* C22: when delete_file has ended after it marked a document as deleted, a
\* rebuild was started (and has returned or raised) within that call, also
\* when the removal of the object from the backing store failed.
C22_DeleteAlwaysRebuilds ==
    \A p \in Procs :
        (fop[p].kind = "delete_file" /\ fop[p].pc = "done"
            /\ fop[p].result # "not_found") =>
            /\ files[fop[p].file_id].status = "deleted"
            /\ fop[p].rebuild \in {"returned", "raised"}

\* C23: a rebuild that found no active document with a backing-store
\* identifier never calls create_vector_store; when a vector store was bound
\* its first call is the deletion of that store, and without a bound store it
\* makes no deletion; once it has returned, the store that was bound is gone
\* from the Knowledge Store and the pointer is cleared, in the settings
\* collection and in the cache.
C23_EmptyRebuildClears ==
    \A p \in Procs :
        (fop[p].rebuild # "none" /\ fop[p].pc # "rb_read_files"
            /\ fop[p].yandex_file_ids = <<>>) =>
            LET old == fop[p].old_vector_store_id
                deletions == RebuildCalls(p, "delete_vector_store")
            IN  /\ RebuildCalls(p, "create_vector_store") = <<>>
                /\ fop[p].new_vector_store_id = None
                /\ ~Truthy(old) => deletions = <<>>
                /\ (Truthy(old) /\ fop[p].calls # <<>>) =>
                      /\ fop[p].calls[1].op = "delete_vector_store"
                      /\ fop[p].calls[1].arg = old
                      /\ Len(deletions) = 1
                /\ fop[p].rebuild = "returned" =>
                      /\ Truthy(old) => /\ Len(deletions) = 1
                                        /\ deletions[1].ok
                                        /\ \A v \in vector_stores : v.id # old
                      /\ db_vector_store_id = <<>>
                      /\ _vector_store_id = <<>>
                      /\ fop[p].calls[Len(fop[p].calls)] =
                            IndexCall("set_current_vector_store_id", <<>>, TRUE)

C23_Witness ==
    \E p \in Procs :
        /\ fop[p].kind = "delete_file"
        /\ fop[p].pc = "done"
        /\ fop[p].rebuild = "returned"
        /\ fop[p].yandex_file_ids = <<>>
        /\ Truthy(fop[p].old_vector_store_id)
        /\ Len(RebuildCalls(p, "delete_vector_store")) = 1
        /\ vector_stores = {}
        /\ db_vector_store_id = <<>>

\* among the records, the document with that backing-store identifier is not
\* deleted
ActiveBackingId(records, yandex_file_id) ==
    \E i \in 1..Len(records) :
        records[i].yandex_file_id = yandex_file_id /\ records[i].status # "deleted"

\* C24: no step removes a document record or changes anything of a record but
\* its status; the steps of delete_file and delete_all_files that mark
\* documents set status "deleted" (on the one document, on all documents);
\* and after every step the listing of the active documents holds no deleted
\* document and the identifiers a running rebuild has read are those of
\* documents that are not deleted.
C24_SoftDeleteOnly ==
    [][/\ Len(files') >= Len(files)
       /\ \A i \in 1..Len(files) : [files'[i] EXCEPT !.status = files[i].status] = files[i]
       /\ \A p \in Procs :
             /\ (fop[p].pc = "del_mark" /\ fop'[p] # fop[p]) =>
                   /\ files'[fop[p].file_id].status = "deleted"
                   /\ \A i \in 1..Len(files) :
                         i # fop[p].file_id => files'[i] = files[i]
             /\ (fop[p].pc = "da_mark" /\ fop'[p] # fop[p]) =>
                   \A i \in 1..Len(files) : files'[i].status = "deleted"
             /\ (fop'[p].rebuild # "none" /\ fop'[p].pc # "rb_read_files") =>
                   \A k \in 1..Len(fop'[p].yandex_file_ids) :
                       ActiveBackingId(files', fop'[p].yandex_file_ids[k])
       /\ \A i \in 1..Len(get_all_active_files') :
             get_all_active_files'[i].status # "deleted"
      ]_vars

C24_Witness ==
    \E p \in Procs :
        /\ fop[p].kind = "delete_file"
        /\ fop[p].pc = "done"
        /\ fop[p].rebuild = "returned"
        /\ Len(files) = 2
        /\ files[fop[p].file_id].status = "deleted"
        /\ Len(get_all_active_files) = 1
        /\ Len(fop[p].yandex_file_ids) = 1
        /\ fop[p].yandex_file_ids[1] # files[fop[p].file_id].yandex_file_id


\* C25: a document's status becomes "ready" only in a request whose rebuild
\* returned and had that document among the files it indexed; when the
\* rebuild of upload_files_with_indexing raises, the request ends with the
\* documents of the batch still "uploaded" and an indexing error among its errors
C25_ReadyOnlyAfterSuccessfulRebuild ==
    [][/\ \A k \in 1..Len(files) :
              (files[k].status # "ready" /\ files'[k].status = "ready")
              => \E p \in Procs :
                    /\ fop[p].pc = "up_ready"
                    /\ fop[p].rebuild = "returned"
                    /\ \E j \in 1..Len(fop[p].yandex_file_ids) :
                          fop[p].yandex_file_ids[j] = files[k].yandex_file_id
       /\ \A p \in Procs :
              ( /\ fop[p].pc # "done"
                /\ fop'[p].pc = "done"
                /\ fop'[p].kind = "upload_files_with_indexing"
                /\ fop'[p].rebuild = "raised" )
              => /\ \E e \in 1..Len(fop'[p].errors) : fop'[p].errors[e] = "indexing"
                 /\ \A u \in 1..Len(fop'[p].uploaded_files) :
                       files'[fop'[p].uploaded_files[u]].status = "uploaded"]_vars


\* C26: when the completion backend answered the generation request of a
\* turn with a status other than 200, the pipeline raised: the turn has
\* failed with no answer, the caller gets the error, and the last message of
\* the thread is the turn's user message, with no assistant message after it
C26_GenerationFailureIsHard ==
    \A p \in Procs :
        (\E i \in 1..Len(turn[p].calls) :
            /\ turn[p].calls[i].op = "generate"
            /\ turn[p].calls[i].out.kind = "status")
        => /\ turn[p].rag = "raised"
           /\ turn[p].pc = "failed"
           /\ turn[p].answer = None
           /\ main_thread(p).status_code = 500
           /\ UserMessageIsLast(p)

C26_Witness ==
    \E p \in Procs :
        /\ turn[p].pc = "failed"
        /\ turn[p].rag = "raised"
        /\ CallsOf(p, "generate") # <<>>
        /\ CallsOf(p, "generate")[1].out.kind = "status"
        /\ UserMessageIsLast(p)


\* C27: the history a turn passes to answer generation is the role and the
\* content of the last HistoryWindow messages its thread held when the turn
\* read it, in the order of their message_id, however long the thread is
C27_HistoryIsMostRecentWindow ==
    \A p \in Procs :
        turn[p].pc = "user_find" =>
            LET prior == LastN(SortByMessageId(ThreadMessages(turn[p].thread_id)),
                               HistoryWindow)
            IN  turn[p].history =
                    [i \in 1..Len(prior) |->
                        [role |-> prior[i].role, content |-> prior[i].content]]


\* C28: a message is classified social (by the classifier, and by the
\* pipeline answering it with a canned text) only if its text, lower-cased and
\* trimmed, is an entry of the greeting, farewell or thanks vocabulary and has
\* at most _MAX_GREETING_WORDS words; a text that only contains an entry, or
\* has more words, is not classified social
C28_SocialOnlyOnExactMatch ==
    \A p \in Procs :
        turn[p].pc # "idle" =>
            LET text == Strip(Lower(turn[p].message))
                exact == /\ text \in (GREETINGS \cup FAREWELLS \cup THANKS)
                         /\ WordCount(text) <= _MAX_GREETING_WORDS
                canned == /\ turn[p].rag = "returned"
                          /\ turn[p].answer \in {GreetingAnswer, FarewellAnswer, ThanksAnswer}
            IN  /\ IsSocial(turn[p].message) => exact
                /\ canned => exact
                /\ ~exact => ~IsSocial(turn[p].message)

\* a turn on an entry followed by another word, or on a text of more than
\* _MAX_GREETING_WORDS words that starts with an entry, has been answered by
\* generation, with the message not classified social
C28_Witness ==
    \E p \in Procs :
        /\ turn[p].pc = "done"
        /\ ~IsSocial(turn[p].message)
        /\ CallsOf(p, "generate") # <<>>
        /\ \/ turn[p].message = <<1087, 1088, 1080, 1074, 1077, 1090, 32, 1076, 1088, 1091, 1075>>
           \/ /\ WordCount(turn[p].message) > _MAX_GREETING_WORDS
              /\ Take(turn[p].message, 2) = <<104, 105>>


\* C29: in the incremental variant, a step that deletes an object from the
\* storage leaves no entry for that object in the fixed index: remove takes
\* the entry out of the index before it deletes the object, also when the
\* removal from the index fails
C29_NoObjectDeletedWhileIndexed ==
    [][\A file_id \in storage_files :
          file_id \notin storage_files' => file_id \notin FixedIndexFiles']_vars

\* C30: in the incremental variant, add calls the storage first and registers
\* the file id it got in the fixed index second; it has returned a file id
\* only when both calls succeeded, the object being in the storage and its
\* entry in the index; with no index configured it raises and calls nothing
C30_AddUploadsThenRegisters ==
    \A p \in Procs :
        (fop[p].kind = "upload_file_to_index" /\ fop[p].pc = "done") =>
            LET calls == fop[p].calls
            IN  /\ \A i \in 1..Len(calls) :
                      /\ calls[i].op = "files.create" => i = 1
                      /\ calls[i].op = "vector_stores.files.create" =>
                            /\ i = 2
                            /\ calls[1].ok
                            /\ calls[2].arg = calls[1].arg
                /\ fop[p].result = "returned" =>
                      /\ Len(calls) = 2
                      /\ calls[1].ok /\ calls[2].ok
                      /\ fop[p].yandex_file_id = calls[1].arg
                      /\ fop[p].yandex_file_id \in storage_files
                      /\ fop[p].yandex_file_id \in FixedIndexFiles
                /\ ~settings.SEARCH_INDEX_ID =>
                      /\ fop[p].result = "raised"
                      /\ calls = <<>>
                      /\ storage_files = {}

C30_Witness ==
    \E p \in Procs :
        /\ fop[p].kind = "upload_file_to_index"
        /\ fop[p].pc = "done"
        /\ fop[p].result = "returned"
        /\ fop[p].yandex_file_id \in FixedIndexFiles
        /\ Cardinality(storage_files) = 2
        /\ Cardinality(FixedIndexFiles) = 1


\* C31: when no rebuild is between its write of the bound index identifier
\* to the registry and its write of the cache, the cached identifier
\* _vector_store_id equals the persisted one (both empty counts as equal),
\* also with two rebuilds running concurrently
C31_CacheEqualsPersisted ==
    (\A p \in Procs : fop[p].pc \notin {"rb_set_cache", "rb_clear_cache"})
    => \/ _vector_store_id = db_vector_store_id
       \/ ~Truthy(_vector_store_id) /\ ~Truthy(db_vector_store_id)


\* the place of a position of process_message in the order of its steps
TurnStage(pc) ==
    CASE pc = "idle" -> 0
      [] pc = "get_chat_thread" -> 1
      [] pc = "generate_chat_name" -> 2
      [] pc = "create_chat_thread" -> 3
      [] pc = "get_history" -> 3
      [] pc = "user_find" -> 4
      [] pc = "user_insert" -> 5
      [] pc = "user_touch" -> 6
      [] pc = "rag_pipeline" -> 7
      [] pc = "asst_find" -> 8
      [] pc = "asst_insert" -> 9
      [] pc = "asst_touch" -> 10
      [] OTHER -> 11

\* C32: every step of a turn moves it forward in the order resolve thread,
\* store the user message, run the pipeline, store the assistant message
\* (or ends it); the pipeline makes its calls only when the user message of
\* the turn is stored in the thread, and an assistant message is
\* inserted only by a turn whose pipeline returned, with the answer it returned
C32_StepsInOrder ==
    [][/\ \A p \in Procs :
            turn'[p] # turn[p] =>
                /\ \/ turn'[p].pc = "idle" /\ turn[p].pc \in {"done", "failed"}
                   \/ TurnStage(turn'[p].pc) > TurnStage(turn[p].pc)
                /\ (turn'[p].rag # turn[p].rag /\ turn'[p].pc # "idle") =>
                      /\ turn[p].pc = "rag_pipeline"
                      /\ turn[p].rag = "none"
                      /\ \E i \in 1..Len(chat_history) :
                            /\ chat_history[i].thread_id = turn[p].thread_id
                            /\ chat_history[i].role = "user"
                            /\ chat_history[i].content = turn[p].message
       /\ Len(chat_history') > Len(chat_history) =>
            LET m == chat_history'[Len(chat_history')]
            IN  /\ Len(chat_history') = Len(chat_history) + 1
                /\ \E p \in Procs :
                      /\ turn[p].pc \in {"user_insert", "asst_insert"}
                      /\ m.thread_id = turn[p].thread_id
                      /\ m.role = "user" =>
                            /\ turn[p].pc = "user_insert"
                            /\ turn[p].rag = "none"
                            /\ m.content = turn[p].message
                      /\ m.role = "assistant" =>
                            /\ turn[p].pc = "asst_insert"
                            /\ turn[p].rag = "returned"
                            /\ m.content = turn[p].answer]_vars

\* a turn on a stored thread has ended with its user message and then its
\* generated answer stored
C32_Witness ==
    \E p \in Procs :
        /\ turn[p].pc = "done"
        /\ ~turn[p].new_chat_created
        /\ CallsOf(p, "generate") # <<>>
        /\ LET ms == ThreadMessages(turn[p].thread_id)
           IN  /\ Len(ms) = 4
               /\ ms[3].role = "user" /\ ms[3].content = turn[p].message
               /\ ms[4].role = "assistant" /\ ms[4].content = turn[p].answer


\* C33: every completion request of the answer generator has one system
\* message first, then the messages of the history the turn read, in their
\* order and with their roles, then the question as a user message last; the
\* system text is the prompt followed by the context when there is one and
\* by the empty marker when there is none
C33_CompletionRequestShape ==
    \A p \in Procs :
        \A k \in 1..Len(turn[p].calls) :
            turn[p].calls[k].op = "generate" =>
                LET context == turn[p].calls[k].text
                    ms == turn[p].calls[k].messages
                    history == turn[p].history
                    n == Len(ms)
                IN  /\ n = Len(history) + 2
                    /\ ms[1].role = "system"
                    /\ ms[1].text = SYSTEM_PROMPT \o
                                    (IF context # <<>> THEN context ELSE EmptyMarker)
                    /\ \A i \in 2..n : ms[i].role # "system"
                    /\ \A i \in 1..Len(history) :
                          /\ ms[i + 1].role = history[i].role
                          /\ ms[i + 1].text = history[i].content
                    /\ ms[n] = [role |-> "user", text |-> turn[p].message]

\* a turn with a history of two messages has made a generation request with
\* passages in its system text
C33_Witness ==
    \E p \in Procs :
        /\ Len(turn[p].history) = 2
        /\ CallsOf(p, "generate") # <<>>
        /\ CallsOf(p, "generate")[1].text # <<>>
        /\ Len(CallsOf(p, "generate")[1].messages) = 4


\* C34: the chunks_used stored with the assistant message of a turn is the
\* number of passages in the context of its generation request: 0 when the
\* message is social (no request) or a direct task, 0 when the search
\* returned nothing or the context was left empty after the relevance check,
\* and otherwise the number of passages retrieved, at most SearchMaxResults
C34_ChunksUsedCountsPassages ==
    \A p \in Procs :
        turn[p].pc \in {"asst_touch", "done"} =>
            LET meta == chat_history[Len(chat_history)].meta
                generate == CallsOf(p, "generate")
                search == CallsOf(p, "search")
            IN  /\ \E n \in 0..SearchMaxResults : meta = {<<"chunks_used", n>>}
                /\ generate = <<>> =>
                      /\ IsSocial(turn[p].message)
                      /\ meta = {<<"chunks_used", 0>>}
                /\ (IsSocial(turn[p].message) \/ _is_direct_task(turn[p].message)) =>
                      /\ search = <<>>
                      /\ meta = {<<"chunks_used", 0>>}
                /\ (generate # <<>> /\ generate[1].text = <<>>) =>
                      meta = {<<"chunks_used", 0>>}
                /\ (search = <<>> \/ search[1].out.kind = "raise" \/ search[1].out.n = 0) =>
                      meta = {<<"chunks_used", 0>>}
                /\ (generate # <<>> /\ generate[1].text # <<>>) =>
                      /\ search # <<>>
                      /\ generate[1].text = Join(ChunkSeparator, Retrieved(p))
                      /\ meta = {<<"chunks_used", Len(Retrieved(p))>>}
                      /\ Len(Retrieved(p)) >= 1

\* the search returned more than SearchMaxResults passages, they were found
\* relevant, and the assistant message records SearchMaxResults
C34_Witness ==
    \E p \in Procs :
        /\ turn[p].pc = "done"
        /\ CallsOf(p, "search") # <<>>
        /\ CallsOf(p, "search")[1].out.n > SearchMaxResults
        /\ CallsOf(p, "generate")[1].text # <<>>
        /\ chat_history[Len(chat_history)].meta = {<<"chunks_used", SearchMaxResults>>}


\* C35: with no other turn on the thread, the generation request of a turn
\* is the system message, then a run of consecutive messages the thread held
\* before the turn's user message was stored, then the question: the stored
\* user message of the turn is not in the history, and the question is in
\* the request once as the current question; for a thread the turn created
\* the history is empty and the request is the system message and the question
C35_HistoryExcludesCurrentMessage ==
    \A p \in Procs :
        (turn[p].pc \in {"asst_find", "asst_insert", "asst_touch", "done"}
         /\ CallsOf(p, "generate") # <<>>) =>
            LET ms == SortByMessageId(ThreadMessages(turn[p].thread_id))
                stored == IF turn[p].pc \in {"asst_touch", "done"} THEN 2 ELSE 1
                before == SubSeq(ms, 1, Len(ms) - stored)
                request == CallsOf(p, "generate")[1].messages
                n == Len(request)
            IN  /\ ms[Len(ms) - stored + 1].role = "user"
                /\ ms[Len(ms) - stored + 1].content = turn[p].message
                /\ n = Len(turn[p].history) + 2
                /\ request[n] = [role |-> "user", text |-> turn[p].message]
                /\ \E a \in 0..Len(before) :
                      /\ a + n - 2 <= Len(before)
                      /\ \A i \in 1..(n - 2) :
                            request[i + 1] = [role |-> before[a + i].role,
                                              text |-> before[a + i].content]
                /\ turn[p].new_chat_created =>
                      /\ turn[p].history = <<>>
                      /\ n = 2

\* a turn on a thread that already holds the same question and its answer
\* has generated with a history of those two messages
C35_Witness ==
    \E p \in Procs :
        /\ turn[p].pc = "done"
        /\ ~turn[p].new_chat_created
        /\ CallsOf(p, "generate") # <<>>
        /\ Len(turn[p].history) = 2
        /\ turn[p].history[1] = [role |-> "user", content |-> turn[p].message]
        /\ Len(ThreadMessages(turn[p].thread_id)) = 4


\* C36: a document whose status is "deleted" keeps that status in every step
\* of every interleaving of file operations, also when delete_file marks it
\* while the upload_files_with_indexing that uploaded it is rebuilding
C36_DeletedStaysDeleted ==
    [][\A k \in 1..Len(files) :
          files[k].status = "deleted" =>
              /\ k <= Len(files')
              /\ files'[k].status = "deleted"]_vars


\* C37: in every state, the intermediate states of a rebuild included, a
\* non-empty bound index identifier names a vector store that exists in the
\* Knowledge Store
C37_BoundIndexExists ==
    Truthy(db_vector_store_id) =>
        \E v \in vector_stores : v.id = db_vector_store_id


\* C38: when every file operation that was started has ended and none of
\* their rebuilds raised, the vector stores that exist in the Knowledge Store
\* are the bound one alone, or none when no index is bound
C38_NoOrphanIndex ==
    ( /\ \A p \in Procs : fop[p].pc \in {"idle", "done"}
      /\ \A p \in Procs : fop[p].rebuild # "raised" )
    => \A v \in vector_stores : v.id = db_vector_store_id


\* C39: when every file operation that was started has ended and none of
\* their rebuilds raised, the bound vector store was created from exactly the
\* files the registry now holds as active, and no index is bound when the
\* registry holds none
C39_BoundIndexIsFinalSet ==
    ( /\ \A p \in Procs : fop[p].pc = "done"
      /\ \A p \in Procs : fop[p].rebuild = "returned" )
    => LET active == get_all_active_files
           ids == {active[i].yandex_file_id : i \in 1..Len(active)}
       IN  IF ids = {} THEN ~ Truthy(db_vector_store_id)
           ELSE \E v \in vector_stores :
                    v.id = db_vector_store_id /\ v.file_ids = ids


\* the task runs rebuild_vector_store_background between its call of
\* _set_indexing_status(True, ...) and its last call of _set_indexing_status
BackgroundRebuildRunning(p) ==
    /\ fop[p].kind = "reindex"
    /\ fop[p].pc \in {"rb_read_id", "rb_read_files", "rb_clear_delete",
                      "rb_clear_persist", "rb_clear_cache", "rb_create",
                      "rb_persist", "rb_set_cache", "rb_delete_old", "rb_return"}

\* C40: is_indexing is true exactly while some background rebuild is running:
\* never false while one runs, never true after all of them have ended
C40_IsIndexingWhileRebuilding ==
    _indexing_status.is_indexing <=> \E p \in Procs : BackgroundRebuildRunning(p)

=============================================================================
